---- MODULE Spec2Model ----
(***************************************************************************)
(* A model of the change-detection pipeline of imessage-undeleter:         *)
(*   core/state_manager.rs     the persistent fingerprint / journal store  *)
(*   core/detection_engine.rs  the ordered deletion detectors              *)
(*   core/event_system.rs      the WAL monitor and its event stream        *)
(*   core/output_plugins.rs    the output manager and its handlers         *)
(*   core/tracker.rs           the coordinating tracker and its shutdown   *)
(* The public operations of each component are the actions; their inputs   *)
(* are drawn from the small sets defined below.                            *)
(***************************************************************************)
EXTENDS Integers, Sequences, FiniteSets, TLC

\* ------------------------------------------------------------------ bounds

\* The clock runs over the days 0 .. MaxDay.
MaxDay == 2
\* StateConfig.retention_days of the run that is modelled.
RetentionDays == 1
\* At most this many rows are ever inserted into deletion_records.
MaxJournal == 2

\* ------------------------------------------------------------- input sets

\* cleanup_old_records: retention_days as i64 * 24 * 60 * 60
SecondsPerDay == 86400

Times == {d * SecondsPerDay : d \in 0..MaxDay}

MessageIds == {1, 2}
ContentHashes == {"A", "B"}

\* Option<T>
None == <<>>
Some(x) == <<x>>
IsSome(o) == o # <<>>
Unwrap(o) == o[1]

\* Vec<String> values used for attachment_hashes
AttachmentLists == {<<>>, <<"x">>, <<"x", "y">>, <<"y", "x">>, <<"x", "x">>}

\* struct MessageFingerprint
MessageFingerprint(mid, ch, ah, ts, cid, sh) ==
    [message_id |-> mid, content_hash |-> ch, attachment_hashes |-> ah,
     timestamp |-> ts, conversation_id |-> cid, sender_handle |-> sh]

\* The fingerprints the callers of the store put at time t: two states of
\* each message, stamped with the time they are taken.
FingerprintInputs(t) ==
    {MessageFingerprint(mid, p[1], p[2], t, p[3], p[4]) :
        mid \in MessageIds,
        p \in {<<"A", <<"x", "y">>, Some(7), Some("h")>>,
               <<"B", <<>>, None, None>>}}

\* ------------------------------------------------------------------- JSON

\* One token of a JSON text.
Tok(t, s) == [t |-> t, s |-> s]

RECURSIVE JsonElems(_)
JsonElems(v) ==
    IF v = <<>> THEN <<>>
    ELSE IF Len(v) = 1 THEN <<Tok("str", v[1])>>
    ELSE <<Tok("str", v[1]), Tok(",", "")>> \o JsonElems(Tail(v))

\* serde_json::to_string(&Vec<String>)
VecToJson(v) == <<Tok("[", "")>> \o JsonElems(v) \o <<Tok("]", "")>>

\* The elements between the brackets: str ("," str)*, or Err.
RECURSIVE ParseElems(_)
ParseElems(toks) ==
    IF Len(toks) = 0 THEN [ok |-> FALSE, v |-> <<>>]
    ELSE IF toks[1].t # "str" THEN [ok |-> FALSE, v |-> <<>>]
    ELSE IF Len(toks) = 1 THEN [ok |-> TRUE, v |-> <<toks[1].s>>]
    ELSE IF toks[2].t # "," THEN [ok |-> FALSE, v |-> <<>>]
    ELSE LET rest == ParseElems(SubSeq(toks, 3, Len(toks)))
         IN  [ok |-> rest.ok, v |-> IF rest.ok THEN <<toks[1].s>> \o rest.v ELSE <<>>]

\* serde_json::from_str::<Vec<String>>(text).unwrap_or_default()
VecFromJsonOrDefault(text) ==
    IF Len(text) < 2 \/ text[1].t # "[" \/ text[Len(text)].t # "]" THEN <<>>
    ELSE IF Len(text) = 2 THEN <<>>
    ELSE ParseElems(SubSeq(text, 2, Len(text) - 1)).v

\* serde_json::to_string(&MessageFingerprint): the object, field by field
FingerprintToJson(fp) ==
    [message_id |-> fp.message_id, content_hash |-> fp.content_hash,
     attachment_hashes |-> VecToJson(fp.attachment_hashes),
     timestamp |-> fp.timestamp, conversation_id |-> fp.conversation_id,
     sender_handle |-> fp.sender_handle]

\* ------------------------------------------------------------------ state

VARIABLES
    now,                   \* chrono::Utc::now().timestamp()
    conn,                  \* "open": a StateManager holds the connection
    message_fingerprints,  \* table message_fingerprints: a set of rows
    deletion_records,      \* table deletion_records: a set of rows
    sqlite_sequence,       \* AUTOINCREMENT: the largest rowid ever inserted
    ret,                   \* the last operation and what it returned
    engine,                \* DetectionEngine { detectors, config }
    delivered,             \* per output handler, the records it has written
    probe,                 \* the transition handed to the detectors (SpecDetect)
    lastPut,               \* history: per id, the last fingerprint put and not purged
    issued,                \* history: the journal ids store_deletion returned, in order
    reported,              \* history: ids a process_event call reported, not put since
    replaced,              \* history: ids for which a put replaced an earlier row
    coord,                 \* where the DeletionTracker is in its life
    outputs,               \* TrackerConfig.outputs
    handlers,              \* OutputManager.handlers
    pending,               \* events of the current check still to be yielded
    last_wal_size,         \* WalMonitor.last_wal_size
    last_check,            \* WalMonitor.last_check
    messages,              \* table message of the monitored database
    purges,                \* cleanup_old_records calls of this run of the tracker
    main,                  \* where the MessageTracker of main.rs is in start
    imessage_db,           \* table message as MessageTracker.imessage_db reads it
    message_cache,         \* MessageTracker.message_cache
    output_file            \* the file at MessageTracker.output_path

storeVars == <<conn, message_fingerprints, deletion_records, sqlite_sequence>>
histVars == <<lastPut, issued, reported, replaced>>
trackerVars == <<coord, outputs, handlers, pending, last_wal_size, last_check,
                 messages, purges>>
mainVars == <<main, imessage_db, message_cache, output_file>>

\* ------------------------------------------------- core/state_manager.rs

\* A row of message_fingerprints as store_fingerprint binds it (the column
\* created_at is written by its DEFAULT and read by nothing).
FingerprintRow(fp) ==
    [message_id |-> fp.message_id, content_hash |-> fp.content_hash,
     attachment_hashes |-> VecToJson(fp.attachment_hashes),
     timestamp |-> fp.timestamp, conversation_id |-> fp.conversation_id,
     sender_handle |-> fp.sender_handle]

\* The MessageFingerprint get_fingerprint builds from a row.
RowToFingerprint(row) ==
    MessageFingerprint(row.message_id, row.content_hash,
                       VecFromJsonOrDefault(row.attachment_hashes),
                       row.timestamp, row.conversation_id, row.sender_handle)

\* INSERT INTO a table that has no key: the row is added, nothing is replaced.
InsertKeepingOld(table, row) == table \cup {row}

\* INSERT OR REPLACE INTO message_fingerprints, message_id INTEGER PRIMARY KEY
InsertOrReplace(table, row) ==
    {r \in table : r.message_id # row.message_id} \cup {row}

\* SELECT ... FROM message_fingerprints WHERE message_id = ?1, query_row
GetFingerprint(table, message_id) ==
    LET rows == {r \in table : r.message_id = message_id}
    IN  IF rows = {} THEN None
        ELSE Some(RowToFingerprint(CHOOSE r \in rows : TRUE))

SetMax(S) == IF S = {} THEN 0 ELSE CHOOSE m \in S : \A x \in S : x <= m

\* INTEGER PRIMARY KEY without AUTOINCREMENT: one more than the largest rowid
\* that is in the table now.
RowidFromTable(table, seq) == SetMax({r.id : r \in table}) + 1

\* id INTEGER PRIMARY KEY AUTOINCREMENT: one more than the largest rowid the
\* table ever held, which sqlite_sequence records.
NextRowid(table, seq) ==
    LET inTable == SetMax({r.id : r \in table})
    IN  (IF seq > inTable THEN seq ELSE inTable) + 1

\* A journal keyed by message: a new row takes the place of the row that holds
\* the same message_id.
InsertOrReplaceByMessage(table, row) ==
    {r \in table : r.message_id # row.message_id} \cup {row}

\* INSERT INTO deletion_records: the statement names no id, every row takes a
\* new rowid and the rows of the table stay as they are.
InsertDeletion(table, row) == table \cup {row}

\* A row of deletion_records as store_deletion binds it; the id is the rowid.
DeletionRow(rowid, deletion) ==
    [id |-> rowid, message_id |-> deletion.message_id,
     original_fingerprint |-> FingerprintToJson(deletion.original_fingerprint),
     deletion_timestamp |-> deletion.deletion_timestamp,
     deletion_type |-> deletion.deletion_type,
     recovered_content |-> deletion.recovered_content,
     recovered_attachments |-> VecToJson(deletion.recovered_attachments)]

\* CREATE TABLE without IF NOT EXISTS after a DROP: the table starts empty.
RecreateTable(table) == {}

\* CREATE TABLE IF NOT EXISTS: an existing table keeps its rows.
CreateTableIfNotExists(table) == table

\* now - retention_days * 24 * 60 * 60
CutoffTimestamp(t) == t - RetentionDays * SecondsPerDay

\* DELETE ... WHERE timestamp <= ?1
PurgeThroughCutoff(table, cutoff) == {r \in table : r.timestamp > cutoff}

\* DELETE FROM message_fingerprints WHERE timestamp < ?1
PurgeFingerprints(table, cutoff) == {r \in table : r.timestamp >= cutoff}

\* DELETE FROM deletion_records WHERE deletion_timestamp < ?1
PurgeDeletions(table, cutoff) == {r \in table : r.deletion_timestamp >= cutoff}

\* Statements in autocommit mode: what was written before the failure stays.
KeepWritten(before, working) == working

\* The Transaction is dropped without commit(): the table is as it was at
\* unchecked_transaction().
Rollback(before, working) == before

\* batch_store_fingerprints, "for fingerprint in fingerprints" from the i-th
\* entry on, inside the transaction. failAt is the position whose execute
\* returns Err (0: none).
RECURSIVE BatchInsert(_, _, _, _)
BatchInsert(working, fingerprints, i, failAt) ==
    IF i > Len(fingerprints) THEN [ok |-> TRUE, table |-> working]
    ELSE IF failAt = i THEN [ok |-> FALSE, table |-> working]
    ELSE BatchInsert(InsertOrReplace(working, FingerprintRow(fingerprints[i])),
                     fingerprints, i + 1, failAt)

\* batch_store_fingerprints. failAt: -1 when unchecked_transaction() or
\* prepare() fails, k when the k-th execute fails, Len + 1 when commit()
\* fails, 0 when nothing does.
BatchStoreFingerprintsResult(table, fingerprints, failAt) ==
    IF failAt = -1 THEN [ok |-> FALSE, table |-> table]
    ELSE LET r == BatchInsert(table, fingerprints, 1, failAt)
         IN  IF r.ok /\ failAt # Len(fingerprints) + 1
             THEN [ok |-> TRUE, table |-> r.table]
             ELSE [ok |-> FALSE, table |-> Rollback(table, r.table)]

\* ----------------------------------------------- core/detection_engine.rs

\* enum DeletionType (core/config.rs)
FullMessage == "DeletionType::FullMessage"
PartialEdit == "DeletionType::PartialEdit"
AttachmentOnly == "DeletionType::AttachmentOnly"
MediaContent == "DeletionType::MediaContent"
DeletionTypes == {FullMessage, PartialEdit, AttachmentOnly, MediaContent}

\* format!("{:?}", deletion_type): the derived Debug prints the variant name
DebugFormat(dt) ==
    CASE dt = FullMessage -> "FullMessage"
      [] dt = PartialEdit -> "PartialEdit"
      [] dt = AttachmentOnly -> "AttachmentOnly"
      [] dt = MediaContent -> "MediaContent"

\* struct DetectionConfig (conversation_filters is read by nothing)
DetectionConfig(types, edits) ==
    [deletion_types |-> types, track_edits_as_deletions |-> edits]

\* struct DetectionResult (metadata is always the empty map)
DetectionResult(dt, content, attachments) ==
    [deletion_type |-> dt, recovered_content |-> content,
     recovered_attachments |-> attachments]

\* Result<Option<DetectionResult>, _>
Ok(v) == [err |-> FALSE, val |-> v]
Err == [err |-> TRUE, val |-> None]

SeqRange(v) == {v[i] : i \in 1..Len(v)}

\* A full-message detector that matches (current_state, previous_state) where
\* the code matches (previous_state, current_state).
FullMessageDetectSwapped(message_id, current_state, previous_state, config) ==
    IF IsSome(current_state) /\ ~IsSome(previous_state)
    THEN Ok(Some(DetectionResult(FullMessage, Some("Full message content"),
                                 Unwrap(current_state).attachment_hashes)))
    ELSE IF /\ IsSome(previous_state) /\ IsSome(current_state)
            /\ Unwrap(previous_state).content_hash # Unwrap(current_state).content_hash
    THEN Ok(Some(DetectionResult(FullMessage, Some("Modified content"), <<>>)))
    ELSE Ok(None)

\* FullMessageDeletionDetector::detect_deletion
FullMessageDetect(message_id, current_state, previous_state, config) ==
    IF IsSome(previous_state) /\ ~IsSome(current_state)
    THEN Ok(Some(DetectionResult(FullMessage, Some("Full message content"),
                                 Unwrap(previous_state).attachment_hashes)))
    ELSE IF /\ IsSome(previous_state) /\ IsSome(current_state)
            /\ Unwrap(previous_state).content_hash # Unwrap(current_state).content_hash
    THEN Ok(Some(DetectionResult(FullMessage, Some("Modified content"), <<>>)))
    ELSE Ok(None)

\* An attachment detector that collects the hashes of the current state that
\* the previous state lacks.
AttachmentDetectAdded(message_id, current_state, previous_state, config) ==
    IF IsSome(previous_state) /\ IsSome(current_state)
    THEN LET prev == Unwrap(previous_state)
             curr == Unwrap(current_state)
             missing_attachments ==
                 SelectSeq(curr.attachment_hashes,
                           LAMBDA hash : hash \notin SeqRange(prev.attachment_hashes))
         IN  IF /\ prev.content_hash = curr.content_hash
                /\ prev.attachment_hashes # curr.attachment_hashes
                /\ missing_attachments # <<>>
             THEN Ok(Some(DetectionResult(AttachmentOnly, None, missing_attachments)))
             ELSE Ok(None)
    ELSE Ok(None)

\* AttachmentDeletionDetector::detect_deletion
AttachmentDetect(message_id, current_state, previous_state, config) ==
    IF IsSome(previous_state) /\ IsSome(current_state)
    THEN LET prev == Unwrap(previous_state)
             curr == Unwrap(current_state)
             missing_attachments ==
                 SelectSeq(prev.attachment_hashes,
                           LAMBDA hash : hash \notin SeqRange(curr.attachment_hashes))
         IN  IF /\ prev.content_hash = curr.content_hash
                /\ prev.attachment_hashes # curr.attachment_hashes
                /\ missing_attachments # <<>>
             THEN Ok(Some(DetectionResult(AttachmentOnly, None, missing_attachments)))
             ELSE Ok(None)
    ELSE Ok(None)

\* PartialEditDetector::detect_deletion
PartialEditDetect(message_id, current_state, previous_state, config) ==
    IF ~config.track_edits_as_deletions THEN Ok(None)
    ELSE IF /\ IsSome(previous_state) /\ IsSome(current_state)
            /\ Unwrap(previous_state).content_hash # Unwrap(current_state).content_hash
    THEN Ok(Some(DetectionResult(PartialEdit, Some("Content changed"), <<>>)))
    ELSE Ok(None)

\* DeletionDetector::name of the three detectors, in the order of the vec!
\* in DetectionEngine::new
AllDetectors == <<"FullMessageDeletion", "AttachmentDeletion", "PartialEdit">>

\* DeletionDetector::supported_types
SupportedTypes(name) ==
    CASE name = "FullMessageDeletion" -> {FullMessage}
      [] name = "AttachmentDeletion" -> {AttachmentOnly}
      [] name = "PartialEdit" -> {PartialEdit}

\* detector.detect_deletion(..): the dynamic dispatch on the boxed detector
DetectDeletion(name, message_id, current_state, previous_state, config) ==
    CASE name = "FullMessageDeletion" ->
            FullMessageDetect(message_id, current_state, previous_state, config)
      [] name = "AttachmentDeletion" ->
            AttachmentDetect(message_id, current_state, previous_state, config)
      [] name = "PartialEdit" ->
            PartialEditDetect(message_id, current_state, previous_state, config)

\* An engine that keeps every detector whatever the configuration enables.
KeepAllDetectors(config) == AllDetectors

\* DetectionEngine::new: detectors.retain(supported type in deletion_types)
NewDetectors(config) ==
    SelectSeq(AllDetectors,
              LAMBDA d : SupportedTypes(d) \cap config.deletion_types # {})

\* DetectionEngine::new
NewEngine(config) == [detectors |-> NewDetectors(config), config |-> config]

\* A record that carries the placeholder fingerprint whatever was stored.
PlaceholderRecord(message_id, previous_state, result, t) ==
    [id |-> 0,
     message_id |-> message_id,
     original_fingerprint |->
         MessageFingerprint(message_id, "unknown", <<>>, t, None, None),
     deletion_timestamp |-> t,
     deletion_type |-> DebugFormat(result.deletion_type),
     recovered_content |-> result.recovered_content,
     recovered_attachments |-> result.recovered_attachments]

\* The DeletionRecord analyze_message_changes builds from a detector's result.
NewDeletionRecord(message_id, previous_state, result, t) ==
    [id |-> 0,
     message_id |-> message_id,
     original_fingerprint |->
         IF IsSome(previous_state) THEN Unwrap(previous_state)
         ELSE MessageFingerprint(message_id, "unknown", <<>>, t, None, None),
     deletion_timestamp |-> t,
     deletion_type |-> DebugFormat(result.deletion_type),
     recovered_content |-> result.recovered_content,
     recovered_attachments |-> result.recovered_attachments]

\* The detector loop without its break: every detector that fires adds a record.
RECURSIVE RunDetectorsNoBreak(_, _, _, _, _, _, _)
RunDetectorsNoBreak(detectors, i, message_id, current_state, previous_state, config, t) ==
    IF i > Len(detectors) THEN [ran |-> <<>>, records |-> <<>>]
    ELSE LET r == DetectDeletion(detectors[i], message_id, current_state,
                                 previous_state, config)
             rest == RunDetectorsNoBreak(detectors, i + 1, message_id, current_state,
                                         previous_state, config, t)
         IN  [ran |-> <<detectors[i]>> \o rest.ran,
              records |->
                  (IF ~r.err /\ IsSome(r.val)
                   THEN <<NewDeletionRecord(message_id, previous_state, Unwrap(r.val), t)>>
                   ELSE <<>>) \o rest.records]

\* analyze_message_changes, "for detector in &self.detectors", from the i-th
\* detector on: the detectors invoked, in order, and the records pushed.
RECURSIVE RunDetectors(_, _, _, _, _, _, _)
RunDetectors(detectors, i, message_id, current_state, previous_state, config, t) ==
    IF i > Len(detectors) THEN [ran |-> <<>>, records |-> <<>>]
    ELSE LET r == DetectDeletion(detectors[i], message_id, current_state,
                                 previous_state, config)
         IN  IF ~r.err /\ IsSome(r.val)
             THEN \* Ok(Some(result)): push the record and break
                  [ran |-> <<detectors[i]>>,
                   records |-> <<NewDeletionRecord(message_id, previous_state,
                                                   Unwrap(r.val), t)>>]
             ELSE \* Ok(None) and Err(e) are logged; the next detector runs
                  LET rest == RunDetectors(detectors, i + 1, message_id, current_state,
                                           previous_state, config, t)
                  IN  [ran |-> <<detectors[i]>> \o rest.ran, records |-> rest.records]

\* An engine that finds every message present with its text unchanged and no
\* attachment.
BuildFingerprintWithoutAttachments(message_id) ==
    Some(MessageFingerprint(message_id, "A", <<>>, 0, None, None))

\* DetectionEngine::build_current_fingerprint: the placeholder, Ok(None)
BuildCurrentFingerprint(message_id) == None

\* analyze_message_changes, "for &message_id in message_ids", from the i-th id
\* on. failAt is the position whose get_fingerprint returns Err (0: none); the
\* "?" then returns the error and drops the records collected so far.
RECURSIVE AnalyzeMessageChanges(_, _, _, _, _, _)
AnalyzeMessageChanges(message_ids, i, table, eng, t, failAt) ==
    IF i > Len(message_ids)
    THEN [ok |-> TRUE, records |-> <<>>, ran |-> <<>>, table |-> table]
    ELSE IF failAt = i
    THEN [ok |-> FALSE, records |-> <<>>, ran |-> <<>>, table |-> table]
    ELSE LET message_id == message_ids[i]
             previous_state == GetFingerprint(table, message_id)
             current_state == BuildCurrentFingerprint(message_id)
             d == RunDetectors(eng.detectors, 1, message_id, current_state,
                               previous_state, eng.config, t)
             \* if let Some(current) = current_state { store_fingerprint(&current) }
             stored == IF IsSome(current_state)
                       THEN InsertOrReplace(table, FingerprintRow(Unwrap(current_state)))
                       ELSE table
             rest == AnalyzeMessageChanges(message_ids, i + 1, stored, eng, t, failAt)
         IN  [ok |-> rest.ok,
              records |-> IF rest.ok THEN d.records \o rest.records ELSE <<>>,
              ran |-> <<d.ran>> \o rest.ran,
              table |-> rest.table]

\* enum DatabaseEvent (core/event_system.rs)
MessagesModified(ids) == [kind |-> "MessagesModified", ids |-> ids]
MessagesAdded(ids) == [kind |-> "MessagesAdded", ids |-> ids]
TransactionComplete == [kind |-> "TransactionComplete", ids |-> <<>>]
MonitoringError == [kind |-> "MonitoringError", ids |-> <<>>]

\* DetectionEngine::process_event
ProcessEventResult(event, table, eng, t, failAt) ==
    IF event.kind = "MessagesModified"
    THEN AnalyzeMessageChanges(event.ids, 1, table, eng, t, failAt)
    ELSE [ok |-> TRUE, records |-> <<>>, ran |-> <<>>, table |-> table]

\* --------------------------------------------------- core/event_system.rs

\* DatabaseEvent::TransactionComplete { wal_size, timestamp }
TransactionCompleteOf(wal_size) ==
    [kind |-> "TransactionComplete", ids |-> <<>>, wal_size |-> wal_size]

\* A check that takes every sample for a change, whatever the size was.
AnySize(current_size, last) == TRUE

\* "if current_size != self.last_wal_size"
SizeChanged(current_size, last) == current_size # last

\* A check that records the sampled size before it queries, and keeps it when
\* the query fails.
QueryFailedSizeRecorded(current_size, last) ==
    [ok |-> FALSE, events |-> <<>>, last_wal_size |-> current_size,
     queried |-> TRUE, checked |-> FALSE]

\* "let changed_messages = self.detect_message_changes().await?" with an Err:
\* the check returns before "self.last_wal_size = current_size".
QueryFailed(current_size, last) ==
    [ok |-> FALSE, events |-> <<>>, last_wal_size |-> last,
     queried |-> TRUE, checked |-> FALSE]

\* A skipped check that still falls through to "self.last_check = now".
SkippedCheckStamped(last) ==
    [ok |-> TRUE, events |-> <<>>, last_wal_size |-> last, queried |-> FALSE,
     checked |-> TRUE]

\* "if !wal_path.exists() { return Ok(vec![]) }": nothing was read, queried
\* or recorded.
SkippedCheck(last) ==
    [ok |-> TRUE, events |-> <<>>, last_wal_size |-> last, queried |-> FALSE,
     checked |-> FALSE]

\* WalMonitor::check_for_changes. wal is the size of the -wal file, None when
\* the file does not exist; changed_messages is what detect_message_changes
\* reads; outcome names the read that fails: "metadata" (fs::metadata),
\* "query" (detect_message_changes), "ok" when none does. queried: whether
\* detect_message_changes was called; checked: whether the check came to
\* "self.last_check = Instant::now()".
CheckForChanges(wal, last, outcome, changed_messages) ==
    IF ~IsSome(wal) THEN SkippedCheck(last)
    ELSE IF outcome = "metadata"
    THEN [ok |-> FALSE, events |-> <<>>, last_wal_size |-> last,
          queried |-> FALSE, checked |-> FALSE]
    ELSE LET current_size == Unwrap(wal)
         IN  IF ~SizeChanged(current_size, last)
             THEN [ok |-> TRUE, events |-> <<>>, last_wal_size |-> last,
                   queried |-> FALSE, checked |-> TRUE]
             ELSE IF outcome = "query"
             THEN QueryFailed(current_size, last)
             ELSE [ok |-> TRUE,
                   events |-> (IF changed_messages # <<>>
                               THEN <<MessagesModified(changed_messages)>>
                               ELSE <<>>)
                              \o <<TransactionCompleteOf(current_size)>>,
                   last_wal_size |-> current_size,
                   queried |-> TRUE, checked |-> TRUE]

\* The unit of the column date of the table message, per second: the code's
\* 1000000000 (nanoseconds since 2001-01-01), counted here in tenths of a
\* second to keep the numbers small.
DateUnitsPerSecond == 10

\* The run starts this many seconds after 2001-01-01.
RunStart == 1

\* The date of a row written at second t of the run.
AppleDate(t) == (RunStart + t) * DateUnitsPerSecond

\* "(self.last_check.elapsed().as_secs() as i64) * -1000000000" at time t
SinceTimestamp(last, t) == (t - last) * (-DateUnitsPerSecond)

\* WHERE date > ?
RowsAfter(table, since_timestamp) == {r \in table : r.date > since_timestamp}

\* ORDER BY date DESC (rows of one date by descending ROWID)
RECURSIVE OrderByDateDesc(_)
OrderByDateDesc(rows) ==
    IF rows = {} THEN <<>>
    ELSE LET first == CHOOSE r \in rows : \A q \in rows :
                          \/ q.date < r.date
                          \/ (q.date = r.date /\ q.rowid <= r.rowid)
         IN  <<first>> \o OrderByDateDesc(rows \ {first})

\* A query without its LIMIT clause.
NoLimit(rows, n) == rows

\* LIMIT ?: the first n rows (every row when n is negative)
Limit(rows, n) ==
    IF n < 0 \/ n >= Len(rows) THEN rows ELSE SubSeq(rows, 1, n)

\* WalMonitor::detect_message_changes at time t: the ROWIDs it returns
DetectMessageChanges(table, last, t, max_batch_size) ==
    LET since_timestamp == SinceTimestamp(last, t)
        rows == Limit(OrderByDateDesc(RowsAfter(table, since_timestamp)),
                      max_batch_size)
    IN  [k \in 1..Len(rows) |-> rows[k].rowid]

\* A monitoring loop that logs the error of a check and yields nothing for it.
YieldNothingOnError(result) == IF result.ok THEN result.events ELSE <<>>

\* WalMonitor::start_monitoring, one turn of the interval loop: the events of
\* the check are yielded one by one; an Err is yielded as one MonitoringError.
YieldEvents(result) == IF result.ok THEN result.events ELSE <<MonitoringError>>

\* ------------------------------------------------- core/output_plugins.rs

\* TrackerConfig.outputs of the run that is modelled: the two default outputs
\* (core/config.rs, Default) and one that is switched off.
OutputConfigs ==
    << [plugin |-> "Terminal", enabled |-> TRUE],
       [plugin |-> "Json", enabled |-> TRUE],
       [plugin |-> "Webhook", enabled |-> FALSE] >>

\* A manager that builds a handler for every config, enabled or not.
HandlersOfAllConfigs(configs) ==
    [i \in 1..Len(configs) |-> [plugin |-> configs[i].plugin, open |-> FALSE]]

\* OutputManager::new: one handler per enabled config, in the configured
\* order; a handler starts without its file (JsonOutputHandler.file: None).
NewHandlers(configs) ==
    LET enabled == SelectSeq(configs, LAMBDA c : c.enabled)
    IN  [i \in 1..Len(enabled) |-> [plugin |-> enabled[i].plugin, open |-> FALSE]]

Handlers == NewHandlers(OutputConfigs)

\* OutputHandler::initialize of one handler when it returns Ok: the JSON
\* handler holds its file, the others keep no state.
HandlerInitialize(h) == IF h.plugin = "Json" THEN [h EXCEPT !.open = TRUE] ELSE h

\* The handlers whose initialize has a "?": open(&self.file_path)? and
\* send().await? / the status test; the terminal handler returns Ok(()).
InitializeCanFail(h) == h.plugin \in {"Json", "Webhook"}

\* OutputManager::initialize from the i-th handler on. failAt is the position
\* whose initialize returns Err (0: none), which the "?" returns at once.
RECURSIVE ManagerInitialize(_, _, _)
ManagerInitialize(hs, i, failAt) ==
    IF i > Len(hs) THEN [ok |-> TRUE, handlers |-> hs, initialized |-> <<>>]
    ELSE IF failAt = i THEN [ok |-> FALSE, handlers |-> hs, initialized |-> <<>>]
    ELSE LET rest == ManagerInitialize([hs EXCEPT ![i] = HandlerInitialize(@)],
                                       i + 1, failAt)
         IN  [rest EXCEPT !.initialized = <<i>> \o @]

\* The handlers whose handle_deletion can return Err: the JSON handler when it
\* holds a file (to_string?, writeln!?, flush?) and the webhook handler.
HandleDeletionCanFail(h) == (h.plugin = "Json" /\ h.open) \/ h.plugin = "Webhook"

\* A handle_deletion that returns Ok has put the record out, except that the
\* JSON handler without a file ("if let Some(ref mut file)") writes nothing.
HandlerWrites(h) == h.plugin # "Json" \/ h.open

\* A manager whose loop returns the first handler error with "?".
RECURSIVE ManagerHandleDeletionAbort(_, _, _, _, _)
ManagerHandleDeletionAbort(hs, i, deletion, written, failing) ==
    IF i > Len(hs) THEN [ok |-> TRUE, written |-> written, invoked |-> <<>>]
    ELSE IF i \in failing THEN [ok |-> FALSE, written |-> written, invoked |-> <<i>>]
    ELSE LET rest == ManagerHandleDeletionAbort(
                         hs, i + 1, deletion,
                         IF ~HandlerWrites(hs[i]) THEN written
                         ELSE [written EXCEPT ![i] = Append(@, deletion)],
                         failing)
         IN  [rest EXCEPT !.invoked = <<i>> \o @]

\* OutputManager::handle_deletion from the i-th handler on: every handler is
\* invoked; a handler in failing returns Err, which is logged; the call
\* returns Ok(()).
RECURSIVE ManagerHandleDeletion(_, _, _, _, _)
ManagerHandleDeletion(hs, i, deletion, written, failing) ==
    IF i > Len(hs) THEN [ok |-> TRUE, written |-> written, invoked |-> <<>>]
    ELSE LET rest == ManagerHandleDeletion(
                         hs, i + 1, deletion,
                         IF i \in failing \/ ~HandlerWrites(hs[i]) THEN written
                         ELSE [written EXCEPT ![i] = Append(@, deletion)],
                         failing)
         IN  [rest EXCEPT !.invoked = <<i>> \o @]

\* The handlers whose finalize has a "?": the JSON handler's file.flush()?.
FinalizeCanFail(h) == h.plugin = "Json" /\ h.open

\* OutputManager::finalize from the i-th handler on. failAt is the position
\* whose finalize returns Err (0: none), which the "?" returns at once.
RECURSIVE ManagerFinalize(_, _, _)
ManagerFinalize(hs, i, failAt) ==
    IF i > Len(hs) THEN [ok |-> TRUE, finalized |-> <<>>]
    ELSE IF failAt = i THEN [ok |-> FALSE, finalized |-> <<i>>]
    ELSE LET rest == ManagerFinalize(hs, i + 1, failAt)
         IN  [rest EXCEPT !.finalized = <<i>> \o @]

\* ---------------------------------------------------------- core/tracker.rs

\* handle_event: "let deletions: Vec<DeletionRecord> = Vec::new();"
TrackerDeletions(message_ids) == <<>>

\* handle_event, "for deletion in deletions", from the k-th deletion on:
\* store_deletion(&deletion)?, then handle_deletion(&deletion_with_id)?.
\* failStoreAt is the position whose store_deletion returns Err (0: none).
RECURSIVE HandleDeletions(_, _, _, _, _, _, _, _)
HandleDeletions(hs, deletions, k, table, seq, written, failStoreAt, failing) ==
    IF k > Len(deletions)
    THEN [ok |-> TRUE, table |-> table, seq |-> seq, written |-> written, ids |-> <<>>]
    ELSE IF failStoreAt = k
    THEN [ok |-> FALSE, table |-> table, seq |-> seq, written |-> written, ids |-> <<>>]
    ELSE LET deletion_id == NextRowid(table, seq)
             deletion_with_id == [deletions[k] EXCEPT !.id = deletion_id]
             rest == HandleDeletions(
                         hs, deletions, k + 1,
                         InsertDeletion(table, DeletionRow(deletion_id, deletions[k])),
                         deletion_id,
                         ManagerHandleDeletion(hs, 1, deletion_with_id, written,
                                               failing).written,
                         failStoreAt, failing)
         IN  [rest EXCEPT !.ids = <<deletion_id>> \o @]

\* ------------------------------- core/state_manager.rs: the range query

\* serde_json::from_str::<Vec<String>>(text)
VecFromJson(text) ==
    IF Len(text) < 2 \/ text[1].t # "[" \/ text[Len(text)].t # "]" THEN Err
    ELSE IF Len(text) = 2 THEN Ok(<<>>)
    ELSE LET p == ParseElems(SubSeq(text, 2, Len(text) - 1))
         IN  IF p.ok THEN Ok(p.v) ELSE Err

\* serde_json::from_str::<MessageFingerprint>(text)
FingerprintFromJson(json) ==
    LET ah == VecFromJson(json.attachment_hashes)
    IN  IF ah.err THEN Err
        ELSE Ok(MessageFingerprint(json.message_id, json.content_hash, ah.val,
                                   json.timestamp, json.conversation_id,
                                   json.sender_handle))

\* The columns of one result row of get_deletions_in_range's SELECT, in the
\* order the statement lists them: column k of the row is cols[k + 1].
SelectColumns(r) ==
    <<r.id, r.message_id, r.original_fingerprint, r.deletion_timestamp,
      r.deletion_type, r.recovered_content, r.recovered_attachments>>

\* rusqlite Row::get(idx): Err(InvalidColumnIndex) when the statement has no
\* column idx.
RowGet(cols, idx) == IF idx < Len(cols) THEN Ok(cols[idx + 1]) ELSE Err

\* The closure get_deletions_in_range hands to query_map.
MapDeletionRow(cols) ==
    LET fingerprint_json == RowGet(cols, 2)
        attachments_json == RowGet(cols, 7)
    IN  IF fingerprint_json.err \/ attachments_json.err THEN Err
        ELSE LET original_fingerprint == FingerprintFromJson(fingerprint_json.val)
             IN  IF original_fingerprint.err THEN Err
                 ELSE Ok([id |-> RowGet(cols, 0).val,
                          message_id |-> RowGet(cols, 1).val,
                          original_fingerprint |-> original_fingerprint.val,
                          deletion_timestamp |-> RowGet(cols, 3).val,
                          deletion_type |-> RowGet(cols, 4).val,
                          recovered_content |-> RowGet(cols, 6).val,
                          recovered_attachments |->
                              VecFromJsonOrDefault(attachments_json.val)])

\* WHERE deletion_timestamp BETWEEN ?1 AND ?2
RowsBetween(table, start_time, end_time) ==
    {r \in table : start_time <= r.deletion_timestamp
                   /\ r.deletion_timestamp <= end_time}

\* ORDER BY deletion_timestamp DESC (rows of one timestamp in rowid order,
\* the order of the table scan)
RECURSIVE OrderByTimestampDesc(_)
OrderByTimestampDesc(rows) ==
    IF rows = {} THEN <<>>
    ELSE LET first == CHOOSE r \in rows : \A q \in rows :
                          \/ q.deletion_timestamp < r.deletion_timestamp
                          \/ /\ q.deletion_timestamp = r.deletion_timestamp
                             /\ r.id <= q.id
         IN  <<first>> \o OrderByTimestampDesc(rows \ {first})

\* "for row in rows { deletions.push(row?) }" from the i-th row on
RECURSIVE CollectRows(_, _, _)
CollectRows(rows, i, deletions) ==
    IF i > Len(rows) THEN Ok(deletions)
    ELSE LET row == MapDeletionRow(SelectColumns(rows[i]))
         IN  IF row.err THEN Err
             ELSE CollectRows(rows, i + 1, Append(deletions, row.val))

\* StateManager::get_deletions_in_range
GetDeletionsInRangeResult(table, start_time, end_time) ==
    CollectRows(OrderByTimestampDesc(RowsBetween(table, start_time, end_time)),
                1, <<>>)

\* ---------------------------------------------------------------- inputs

\* DetectionConfig of the runs of Spec: the default (core/config.rs) and one
\* with the full-message type switched off and edit tracking on.
EngineConfigs ==
    {DetectionConfig({FullMessage, AttachmentOnly}, FALSE),
     DetectionConfig({AttachmentOnly, PartialEdit}, TRUE)}

\* The records the callers of store_deletion append at time t.
DeletionInputs(t) ==
    {[id |-> 0, message_id |-> mid,
      original_fingerprint |->
          MessageFingerprint(mid, "A", <<"x", "y">>, 0, Some(7), Some("h")),
      deletion_timestamp |-> t, deletion_type |-> "FullMessage",
      recovered_content |-> Some("Full message content"),
      recovered_attachments |-> <<"x", "y">>] :
        mid \in MessageIds}

\* Vec<i32> of message ids in a MessagesModified event (an id may occur twice)
IdBatches == {<<1>>, <<2>>, <<1, 2>>, <<2, 1>>, <<1, 1>>}

Events ==
    {MessagesModified(ids) : ids \in IdBatches}
        \cup {MessagesAdded(<<1>>), TransactionComplete, MonitoringError}

\* Every DetectionConfig over the four deletion types.
AllDetectionConfigs ==
    {DetectionConfig(types, edits) : types \in SUBSET DeletionTypes, edits \in BOOLEAN}

\* The states of one message the detectors are probed with.
ProbeStates ==
    {None} \cup {Some(MessageFingerprint(1, ch, ah, 0, None, None)) :
                    ch \in ContentHashes, ah \in AttachmentLists}

NoProbe == [previous_state |-> None, current_state |-> None]

\* ------------------------------------------------------------------- Init

\* The binary of main.rs is not running and has left no output file.
NoMessageTracker ==
    /\ main = "Off"
    /\ imessage_db = {}
    /\ message_cache = {}
    /\ output_file = None

InitStore ==
    /\ now = 0
    /\ conn = "open"
    /\ message_fingerprints = {}
    /\ deletion_records = {}
    /\ sqlite_sequence = 0
    /\ delivered = [i \in 1..Len(Handlers) |-> <<>>]
    /\ lastPut = [id \in MessageIds |-> None]
    /\ issued = <<>>
    /\ reported = {}
    /\ replaced = {}
    /\ ret = [op |-> "none", ok |-> TRUE]

\* A DeletionTracker built from the default outputs, in its event loop.
InitRunning ==
    /\ coord = "Running"
    /\ outputs = OutputConfigs
    /\ handlers = ManagerInitialize(Handlers, 1, 0).handlers
    /\ pending = <<>>
    /\ last_wal_size = 0
    /\ last_check = 0
    /\ messages = {}
    /\ purges = 1

Init ==
    /\ InitStore
    /\ InitRunning
    /\ engine \in {NewEngine(c) : c \in EngineConfigs}
    /\ probe = NoProbe
    /\ NoMessageTracker

InitStoreOnly ==
    /\ InitStore
    /\ InitRunning
    /\ engine = NewEngine(DetectionConfig({FullMessage, AttachmentOnly}, FALSE))
    /\ probe = NoProbe
    /\ NoMessageTracker

InitDetect ==
    /\ InitStore
    /\ InitRunning
    /\ NoMessageTracker
    /\ engine \in {NewEngine(c) : c \in AllDetectionConfigs}
    /\ probe \in {[previous_state |-> p, current_state |-> c] :
                     p \in ProbeStates, c \in ProbeStates}

\* ---------------------------------------------------------------- actions

\* The clock advances by a day.
Tick ==
    /\ now < MaxDay * SecondsPerDay
    /\ now' = now + SecondsPerDay
    /\ UNCHANGED <<storeVars, ret, engine, delivered, probe, mainVars, trackerVars, histVars>>

\* The StateManager is dropped (the process exits); every statement was
\* committed when it ran, so the database file keeps both tables.
Close ==
    /\ conn = "open"
    /\ conn' = "closed"
    /\ ret' = [op |-> "close", ok |-> TRUE]
    /\ UNCHANGED <<now, message_fingerprints, deletion_records, sqlite_sequence,
                   engine, delivered, probe, mainVars, trackerVars, histVars>>

\* StateManager::new on the existing database file: Connection::open,
\* initialize_schema, cleanup_old_records. outcome names the statement that
\* fails, "ok" when none does.
New(outcome) ==
    LET cutoff_timestamp == CutoffTimestamp(now)
        fps == CreateTableIfNotExists(message_fingerprints)
        dels == CreateTableIfNotExists(deletion_records)
        schema == outcome \notin {"open", "schema"}
        purgedFps == outcome \in {"delete_records", "ok"}
        purgedDels == outcome = "ok"
    IN  /\ conn = "closed"
        /\ conn' = IF outcome = "ok" THEN "open" ELSE "closed"
        /\ message_fingerprints' =
               IF purgedFps THEN PurgeFingerprints(fps, cutoff_timestamp)
               ELSE IF schema THEN fps ELSE message_fingerprints
        /\ deletion_records' =
               IF purgedDels THEN PurgeDeletions(dels, cutoff_timestamp)
               ELSE IF schema THEN dels ELSE deletion_records
        /\ ret' = [op |-> "new", ok |-> outcome = "ok", arg |-> cutoff_timestamp,
                   failed |-> outcome,
                   deleted_fingerprints |->
                       Cardinality(message_fingerprints \ message_fingerprints'),
                   deleted_records |->
                       Cardinality(deletion_records \ deletion_records')]
        /\ lastPut' = [id \in MessageIds |->
                          IF /\ purgedFps /\ IsSome(lastPut[id])
                             /\ Unwrap(lastPut[id]).timestamp < cutoff_timestamp
                          THEN None ELSE lastPut[id]]
        /\ UNCHANGED <<now, sqlite_sequence, engine, delivered, probe, mainVars,
                       trackerVars, issued, reported,
                       replaced>>

\* StateManager::store_fingerprint
StoreFingerprint(fingerprint, ok) ==
    /\ conn = "open"
    /\ message_fingerprints' =
           IF ok THEN InsertOrReplace(message_fingerprints, FingerprintRow(fingerprint))
           ELSE message_fingerprints
    /\ ret' = [op |-> "store_fingerprint", ok |-> ok, arg |-> fingerprint.message_id]
    /\ lastPut' = IF ok THEN [lastPut EXCEPT ![fingerprint.message_id] = Some(fingerprint)]
                  ELSE lastPut
    /\ reported' = IF ok THEN reported \ {fingerprint.message_id} ELSE reported
    /\ replaced' =
           IF ok /\ IsSome(GetFingerprint(message_fingerprints, fingerprint.message_id))
           THEN replaced \cup {fingerprint.message_id} ELSE replaced
    /\ UNCHANGED <<now, conn, deletion_records, sqlite_sequence, engine, delivered,
                   probe, mainVars, trackerVars, issued>>

\* StateManager::get_fingerprint
GetFingerprintCall(message_id) ==
    /\ conn = "open"
    /\ ret' = [op |-> "get_fingerprint", ok |-> TRUE, arg |-> message_id,
               val |-> GetFingerprint(message_fingerprints, message_id)]
    /\ UNCHANGED <<now, storeVars, engine, delivered, probe, mainVars, trackerVars, histVars>>

\* History of one append: the id returned, and whether the row that held the
\* largest id ever inserted was gone from the table when it was assigned.
Issued(deletion_id, table, seq) ==
    [id |-> deletion_id, after_purge |-> seq > SetMax({r.id : r \in table})]

\* StateManager::store_deletion
StoreDeletion(deletion, ok) ==
    LET deletion_id == NextRowid(deletion_records, sqlite_sequence)
    IN  /\ conn = "open"
        /\ Len(issued) < MaxJournal
        /\ deletion_records' =
               IF ok THEN InsertDeletion(deletion_records,
                                         DeletionRow(deletion_id, deletion))
               ELSE deletion_records
        /\ sqlite_sequence' = IF ok THEN deletion_id ELSE sqlite_sequence
        /\ ret' = [op |-> "store_deletion", ok |-> ok,
                   val |-> IF ok THEN deletion_id ELSE 0]
        /\ issued' = IF ok THEN Append(issued, Issued(deletion_id, deletion_records,
                                                     sqlite_sequence))
                     ELSE issued
        /\ UNCHANGED <<now, conn, message_fingerprints, engine, delivered, probe,
                       mainVars, trackerVars,
                       lastPut, reported, replaced>>

\* StateManager::get_deletions_in_range
GetDeletionsInRange(start_time, end_time) ==
    LET r == GetDeletionsInRangeResult(deletion_records, start_time, end_time)
    IN  /\ conn = "open"
        /\ ret' = [op |-> "get_deletions_in_range", ok |-> ~r.err,
                   start_time |-> start_time, end_time |-> end_time,
                   val |-> IF r.err THEN <<>> ELSE r.val]
        /\ UNCHANGED <<now, storeVars, engine, delivered, probe, mainVars, trackerVars, histVars>>

RecordIds(records) == {records[i].message_id : i \in 1..Len(records)}

\* DetectionEngine::process_event with a context on the open StateManager
ProcessEvent(event, failAt) ==
    LET r == ProcessEventResult(event, message_fingerprints, engine, now, failAt)
    IN  /\ conn = "open"
        /\ message_fingerprints' = r.table
        /\ ret' = [op |-> "process_event", ok |-> r.ok, arg |-> event,
                   val |-> r.records, ran |-> r.ran]
        /\ reported' = reported \cup RecordIds(r.records)
        /\ UNCHANGED <<now, conn, deletion_records, sqlite_sequence, engine, delivered,
                       probe, mainVars, trackerVars, lastPut, issued, replaced>>

\* DeletionTracker::handle_event: what it does to the journal and the outputs
HandleEventEffect(event, failStoreAt, failing) ==
    LET r == IF event.kind = "MessagesModified"
             THEN HandleDeletions(handlers, TrackerDeletions(event.ids), 1,
                                  deletion_records, sqlite_sequence, delivered,
                                  failStoreAt, failing)
             ELSE [ok |-> TRUE, table |-> deletion_records, seq |-> sqlite_sequence,
                   written |-> delivered, ids |-> <<>>]
    IN  /\ deletion_records' = r.table
        /\ sqlite_sequence' = r.seq
        /\ delivered' = r.written
        /\ issued' = issued \o
               [k \in 1..Len(r.ids) |->
                   [id |-> r.ids[k],
                    after_purge |-> k = 1 /\ sqlite_sequence >
                                       SetMax({d.id : d \in deletion_records})]]
        /\ ret' = [op |-> "handle_event", ok |-> r.ok, arg |-> event,
                   failing |-> failing]

\* DeletionTracker::handle_event on an event handed to it
HandleEvent(event, failStoreAt, failing) ==
    /\ conn = "open"
    /\ HandleEventEffect(event, failStoreAt, failing)
    /\ UNCHANGED <<now, conn, message_fingerprints, engine, probe, mainVars, trackerVars,
                   lastPut, reported, replaced>>

\* The handlers of hs whose handle_deletion can return Err.
FailingSets(hs) == SUBSET {i \in 1..Len(hs) : HandleDeletionCanFail(hs[i])}

vars == <<now, conn, message_fingerprints, deletion_records, sqlite_sequence, ret,
          engine, delivered, probe, lastPut, issued, reported, replaced, coord,
          outputs, handlers, pending, last_wal_size, last_check, messages, purges,
          main, imessage_db, message_cache, output_file>>

NewOutcomes == {"open", "schema", "delete_fingerprints", "delete_records", "ok"}

\* The pipeline: fingerprints are put, events are processed by the engine and
\* handled by the tracker.
Next ==
    \/ Tick
    \/ \E fp \in FingerprintInputs(now), ok \in BOOLEAN : StoreFingerprint(fp, ok)
    \/ \E e \in Events : \E failAt \in 0..Len(e.ids) : ProcessEvent(e, failAt)
    \/ \E e \in Events :
           \E failStoreAt \in 0..Len(TrackerDeletions(e.ids)),
              failing \in FailingSets(handlers) :
               HandleEvent(e, failStoreAt, failing)

Spec == Init /\ [][Next]_vars

\* The store alone: its operations in any order, across restarts.
NextStore ==
    \/ Tick
    \/ Close
    \/ \E outcome \in NewOutcomes : New(outcome)
    \/ \E fp \in FingerprintInputs(now), ok \in BOOLEAN : StoreFingerprint(fp, ok)
    \/ \E id \in MessageIds : GetFingerprintCall(id)
    \/ \E d \in DeletionInputs(now), ok \in BOOLEAN : StoreDeletion(d, ok)

SpecStore == InitStoreOnly /\ [][NextStore]_vars

\* detector.detect_deletion on the probed transition, for one of the three
\* detectors
Detect(name) ==
    /\ ret' = [op |-> "detect", ok |-> TRUE, detector |-> name,
               val |-> DetectDeletion(name, 1, probe.current_state,
                                      probe.previous_state, engine.config)]
    /\ UNCHANGED <<now, storeVars, engine, delivered, probe, mainVars, trackerVars, histVars>>

\* The detector loop of analyze_message_changes on the probed transition
Analyze ==
    /\ ret' = [op |-> "run_detectors", ok |-> TRUE,
               val |-> RunDetectors(engine.detectors, 1, 1, probe.current_state,
                                    probe.previous_state, engine.config, now)]
    /\ UNCHANGED <<now, storeVars, engine, delivered, probe, mainVars, trackerVars, histVars>>

\* The detectors alone, on every transition of one message under every config.
NextDetect ==
    \/ \E name \in SeqRange(AllDetectors) : Detect(name)
    \/ Analyze

SpecDetect == InitDetect /\ [][NextDetect]_vars

\* ----------------------------------------------------- the batched put

\* The slices handed to batch_store_fingerprints at time t: up to two
\* fingerprints, of one message or of two.
BatchInputs(t) ==
    {<<>>} \cup {<<f>> : f \in FingerprintInputs(t)}
           \cup {<<f, g>> : f \in FingerprintInputs(t), g \in FingerprintInputs(t)}

\* The last entry of fingerprints for message_id, None when there is none.
LastEntryFor(fingerprints, message_id) ==
    LET at == {k \in 1..Len(fingerprints) : fingerprints[k].message_id = message_id}
    IN  IF at = {} THEN None ELSE Some(fingerprints[SetMax(at)])

\* StateManager::batch_store_fingerprints
BatchStoreFingerprints(fingerprints, failAt) ==
    LET r == BatchStoreFingerprintsResult(message_fingerprints, fingerprints, failAt)
        ids == {fingerprints[k].message_id : k \in 1..Len(fingerprints)}
    IN  /\ conn = "open"
        /\ message_fingerprints' = r.table
        /\ ret' = [op |-> "batch_store_fingerprints", ok |-> r.ok,
                   arg |-> fingerprints, failAt |-> failAt]
        /\ lastPut' = IF r.ok
                      THEN [id \in MessageIds |->
                               IF id \in ids THEN LastEntryFor(fingerprints, id)
                               ELSE lastPut[id]]
                      ELSE lastPut
        /\ reported' = IF r.ok THEN reported \ ids ELSE reported
        /\ replaced' =
               IF r.ok
               THEN replaced \cup
                        {id \in ids : IsSome(GetFingerprint(message_fingerprints, id))}
               ELSE replaced
        /\ UNCHANGED <<now, conn, deletion_records, sqlite_sequence, engine, delivered,
                       probe, mainVars, trackerVars, issued>>

\* The two ways of putting fingerprints, and the read.
NextBatch ==
    \/ \E fp \in FingerprintInputs(now) : StoreFingerprint(fp, TRUE)
    \/ \E fps \in BatchInputs(now) : \E failAt \in -1..(Len(fps) + 1) :
           BatchStoreFingerprints(fps, failAt)
    \/ \E id \in MessageIds : GetFingerprintCall(id)

SpecBatch == InitStoreOnly /\ [][NextBatch]_vars

\* The journal alone: records are appended as the days pass and read back by
\* time range.
NextJournal ==
    \/ Tick
    \/ \E d \in DeletionInputs(now) : StoreDeletion(d, TRUE)
    \/ \E start_time \in Times, end_time \in Times :
           GetDeletionsInRange(start_time, end_time)

SpecJournal == InitStoreOnly /\ [][NextJournal]_vars

\* ------------------------------------------------- the tracker's life

\* TrackerConfig.outputs of the runs of SpecTracker and SpecOutput: the
\* default, and two orders in which a handler that can fail comes first.
OutputConfigSets ==
    { OutputConfigs,
      << [plugin |-> "Json", enabled |-> TRUE],
         [plugin |-> "Webhook", enabled |-> FALSE],
         [plugin |-> "Terminal", enabled |-> TRUE] >>,
      << [plugin |-> "Webhook", enabled |-> TRUE],
         [plugin |-> "Json", enabled |-> TRUE] >> }

\* The -wal file of the monitored database: absent, or its size in bytes.
WalStates == {None, Some(0), Some(4096), Some(8192)}

\* The row ids detect_message_changes reads from the monitored database.
ChangedMessages == {<<>>, <<1>>, <<2, 1>>}

CheckOutcomes == {"ok", "metadata", "query"}

\* No process runs: the state database does not exist yet.
InitTracker ==
    /\ now = 0
    /\ conn = "closed"
    /\ message_fingerprints = {}
    /\ deletion_records = {}
    /\ sqlite_sequence = 0
    /\ outputs \in OutputConfigSets
    /\ delivered = [i \in 1..Len(NewHandlers(outputs)) |-> <<>>]
    /\ coord = "Idle"
    /\ handlers = <<>>
    /\ pending = <<>>
    /\ last_wal_size = 0
    /\ last_check = 0
    /\ messages = {}
    /\ purges = 0
    /\ engine = NewEngine(DetectionConfig({FullMessage, AttachmentOnly}, FALSE))
    /\ probe = NoProbe
    /\ NoMessageTracker
    /\ lastPut = [id \in MessageIds |-> None]
    /\ issued = <<>>
    /\ reported = {}
    /\ replaced = {}
    /\ ret = [op |-> "none", ok |-> TRUE]

\* The positions of hs whose initialize can return Err, and 0 for none.
InitFailures(hs) == {0} \cup {i \in 1..Len(hs) : InitializeCanFail(hs[i])}

\* The positions of hs whose finalize can return Err, and 0 for none.
FinalizeFailures(hs) == {0} \cup {i \in 1..Len(hs) : FinalizeCanFail(hs[i])}

RECURSIVE RowsAscending(_)
RowsAscending(table) ==
    IF table = {} THEN <<>>
    ELSE LET r == CHOOSE x \in table : \A y \in table : x.id <= y.id
         IN  <<r>> \o RowsAscending(table \ {r})

\* A start-up that hands every row of the journal to every handler again.
RedispatchJournal(hs, journal, written) ==
    [i \in DOMAIN written |-> written[i] \o RowsAscending(journal)]

\* DeletionTracker::new reads nothing from deletion_records and calls no
\* handle_deletion: the outputs hold what they held.
DispatchAtStartup(hs, journal, written) == written

\* A constructor that goes on without a state manager when StateManager::new
\* fails.
NewResultIgnoringStore(store_ok, init_ok) == init_ok

\* DeletionTracker::new returns Ok(Self) only past "StateManager::new(..)
\* .await?" and "initialize().await?".
NewResult(store_ok, init_ok) == store_ok /\ init_ok

\* DeletionTracker::new: StateManager::new, DetectionEngine::new,
\* OutputManager::new, OutputManager::initialize; each "?" returns the error
\* and drops what was built.
TrackerNew(store_ok, failInit) ==
    LET cutoff_timestamp == CutoffTimestamp(now)
        init == ManagerInitialize(NewHandlers(outputs), 1, failInit)
        ok == NewResult(store_ok, init.ok)
    IN  /\ coord = "Idle"
        /\ conn = "closed"
        /\ message_fingerprints' =
               IF store_ok
               THEN PurgeFingerprints(CreateTableIfNotExists(message_fingerprints),
                                      cutoff_timestamp)
               ELSE message_fingerprints
        /\ deletion_records' =
               IF store_ok
               THEN PurgeDeletions(CreateTableIfNotExists(deletion_records),
                                   cutoff_timestamp)
               ELSE deletion_records
        /\ lastPut' = [id \in MessageIds |->
                          IF /\ store_ok /\ IsSome(lastPut[id])
                             /\ Unwrap(lastPut[id]).timestamp < cutoff_timestamp
                          THEN None ELSE lastPut[id]]
        /\ conn' = IF ok /\ store_ok THEN "open" ELSE "closed"
        /\ handlers' = IF ok THEN init.handlers ELSE <<>>
        /\ delivered' = IF store_ok
                        THEN DispatchAtStartup(init.handlers, deletion_records',
                                               delivered)
                        ELSE delivered
        /\ coord' = IF ok THEN "Initialized" ELSE "Idle"
        /\ pending' = <<>>
        /\ last_wal_size' = 0
        /\ last_check' = now
        /\ purges' = IF ok /\ store_ok THEN 1 ELSE 0
        /\ ret' = [op |-> "tracker_new", ok |-> ok, store_ok |-> store_ok,
                   failInit |-> failInit,
                   initialized |-> IF store_ok THEN init.initialized ELSE <<>>,
                   journal |-> Cardinality(deletion_records')]
        /\ UNCHANGED <<now, sqlite_sequence, engine, probe, mainVars, issued, reported,
                       replaced, outputs, messages>>

\* DeletionTracker::start up to its first "event_stream.next().await"
Start ==
    /\ coord = "Initialized"
    /\ coord' = "Running"
    /\ pending' = <<>>
    /\ ret' = [op |-> "start", ok |-> TRUE]
    /\ UNCHANGED <<now, storeVars, engine, delivered, probe, mainVars, histVars, outputs,
                   handlers, last_wal_size, last_check, messages, purges>>

\* A stream that runs in a task of its own and queues what it yields: the
\* next check does not wait for the events of the last one to be taken.
RunsAhead(waiting) == TRUE

\* The generator of start_monitoring runs only inside event_stream.next():
\* it is back at "interval_stream.next().await" when "for event in events"
\* has yielded every event of the last check, each one handed to handle_event
\* before the generator was resumed.
AtIntervalWait(waiting) == waiting = <<>>

\* One turn of the interval loop of start_monitoring: check_for_changes, and
\* what the stream will yield for it.
Poll(wal, outcome, changed_messages) ==
    LET r == CheckForChanges(wal, last_wal_size, outcome, changed_messages)
    IN  /\ coord = "Running"
        /\ AtIntervalWait(pending)
        /\ pending' = YieldEvents(r)
        /\ last_wal_size' = r.last_wal_size
        /\ last_check' = IF r.checked THEN now ELSE last_check
        /\ ret' = [op |-> "check_for_changes", ok |-> r.ok, wal |-> wal,
                   queried |-> r.queried]
        /\ UNCHANGED <<now, storeVars, engine, delivered, probe, mainVars, histVars, coord,
                       outputs, handlers, messages, purges>>

\* DeletionTracker::start, one turn of "while let Some(event)": the next
\* event of the stream is handled; an Err of handle_event is logged.
HandleNext(failStoreAt, failing) ==
    /\ coord = "Running"
    /\ pending # <<>>
    /\ HandleEventEffect(Head(pending), failStoreAt, failing)
    /\ pending' = Tail(pending)
    /\ UNCHANGED <<now, conn, message_fingerprints, engine, probe, mainVars, lastPut, reported,
                   replaced, coord, outputs, handlers, last_wal_size, last_check,
                   messages, purges>>

\* The future of start is dropped (main.rs: tokio::select! with ctrl_c). A
\* future is dropped only where it is suspended, and start suspends only in
\* "interval_stream.next().await" and in "tokio::fs::metadata(..).await",
\* which is before check_for_changes has changed or produced anything: no
\* event of a check is waiting. The tracker is left as it is; nothing in
\* start runs after the drop.
Cancel ==
    /\ coord = "Running"
    /\ pending = <<>>
    /\ coord' = "Cancelled"
    /\ ret' = [op |-> "cancel", ok |-> TRUE]
    /\ UNCHANGED <<now, storeVars, engine, delivered, probe, mainVars, histVars, outputs,
                   handlers, pending, last_wal_size, last_check, messages, purges>>

\* ShutdownHandler::shutdown: finalize()?; the tracker is dropped.
Shutdown(failAt) ==
    LET r == ManagerFinalize(handlers, 1, failAt)
    IN  /\ coord \in {"Initialized", "Cancelled"}
        /\ coord' = IF r.ok THEN "Stopped" ELSE "Failed"
        /\ conn' = "closed"
        /\ ret' = [op |-> "shutdown", ok |-> r.ok, failAt |-> failAt,
                   finalized |-> r.finalized, handlers |-> Len(handlers)]
        /\ handlers' = <<>>
        /\ pending' = <<>>
        /\ UNCHANGED <<now, message_fingerprints, deletion_records, sqlite_sequence,
                       engine, delivered, probe, mainVars, histVars, outputs, last_wal_size,
                       last_check, messages, purges>>

\* The process ends, by returning from main or by a crash.
Exit ==
    /\ coord # "Idle"
    /\ coord' = "Idle"
    /\ conn' = "closed"
    /\ handlers' = <<>>
    /\ pending' = <<>>
    /\ purges' = 0
    /\ ret' = [op |-> "exit", ok |-> TRUE]
    /\ UNCHANGED <<now, message_fingerprints, deletion_records, sqlite_sequence,
                   engine, delivered, probe, mainVars, histVars, outputs, last_wal_size,
                   last_check, messages>>

\* The tracker from its construction to its end, across restarts, with rows
\* appended to the journal of the state database it holds open.
NextTracker ==
    \/ \E failInit \in InitFailures(NewHandlers(outputs)) : TrackerNew(TRUE, failInit)
    \/ TrackerNew(FALSE, 0)
    \/ Start
    \/ \E wal \in WalStates, outcome \in CheckOutcomes, changed \in ChangedMessages :
           Poll(wal, outcome, changed)
    \/ /\ pending # <<>>
       /\ \E failStoreAt \in 0..Len(TrackerDeletions(Head(pending).ids)),
             failing \in FailingSets(handlers) :
              HandleNext(failStoreAt, failing)
    \/ Cancel
    \/ \E failAt \in FinalizeFailures(handlers) : Shutdown(failAt)
    \/ Exit
    \/ \E d \in DeletionInputs(now) : StoreDeletion(d, TRUE)

SpecTracker == InitTracker /\ [][NextTracker]_vars

\* The clock of the monitor runs over the seconds 0 .. MaxSecond.
MaxSecond == 2
\* At most this many rows are ever written to the table message.
MaxMessages == 3
\* DatabaseConfig.max_batch_size of the run that is modelled.
MaxBatchSize == 2

\* A second passes.
Second ==
    /\ now < MaxSecond
    /\ now' = now + 1
    /\ ret' = [op |-> "second", ok |-> TRUE]
    /\ UNCHANGED <<storeVars, engine, delivered, probe, mainVars, trackerVars, histVars>>

\* Messages writes a row to the table message of the monitored database.
WriteMessage ==
    /\ Cardinality(messages) < MaxMessages
    /\ messages' = messages \cup {[rowid |-> Cardinality(messages) + 1,
                                    date |-> AppleDate(now)]}
    /\ ret' = [op |-> "write_message", ok |-> TRUE]
    /\ UNCHANGED <<now, storeVars, engine, delivered, probe, mainVars, histVars, coord,
                   outputs, handlers, pending, last_wal_size, last_check, purges>>

\* The tracker in its loop over a monitored database that is written to
\* while the seconds pass.
NextMonitor ==
    \/ Second
    \/ WriteMessage
    \/ \E wal \in WalStates, outcome \in CheckOutcomes :
           Poll(wal, outcome,
                DetectMessageChanges(messages, last_check, now, MaxBatchSize))
    \/ /\ pending # <<>>
       /\ HandleNext(0, {})

SpecMonitor == InitStoreOnly /\ [][NextMonitor]_vars

\* ------------------------------------------------- the output manager alone

\* At most this many records are written to one output.
MaxDeliveries == 2

\* The records handed to OutputManager::handle_deletion: one per message,
\* carrying a journal id.
OutputRecords(t) == {[d EXCEPT !.id = d.message_id] : d \in DeletionInputs(t)}

\* An OutputManager built by OutputManager::new, with no tracker around it.
InitOutput ==
    /\ now = 0
    /\ conn = "closed"
    /\ message_fingerprints = {}
    /\ deletion_records = {}
    /\ sqlite_sequence = 0
    /\ outputs \in OutputConfigSets
    /\ delivered = [i \in 1..Len(NewHandlers(outputs)) |-> <<>>]
    /\ coord = "Idle"
    /\ handlers = NewHandlers(outputs)
    /\ pending = <<>>
    /\ last_wal_size = 0
    /\ last_check = 0
    /\ messages = {}
    /\ purges = 0
    /\ engine = NewEngine(DetectionConfig({FullMessage, AttachmentOnly}, FALSE))
    /\ probe = NoProbe
    /\ NoMessageTracker
    /\ lastPut = [id \in MessageIds |-> None]
    /\ issued = <<>>
    /\ reported = {}
    /\ replaced = {}
    /\ ret = [op |-> "none", ok |-> TRUE]

\* OutputManager::initialize
Initialize(failAt) ==
    LET r == ManagerInitialize(handlers, 1, failAt)
    IN  /\ handlers' = r.handlers
        /\ ret' = [op |-> "initialize", ok |-> r.ok, failAt |-> failAt,
                   initialized |-> r.initialized]
        /\ UNCHANGED <<now, storeVars, engine, delivered, probe, mainVars, histVars, coord,
                       outputs, pending, last_wal_size, last_check, messages, purges>>

\* OutputManager::handle_deletion
HandleDeletion(deletion, failing) ==
    LET r == ManagerHandleDeletion(handlers, 1, deletion, delivered, failing)
    IN  /\ \A i \in DOMAIN delivered : Len(delivered[i]) < MaxDeliveries
        /\ delivered' = r.written
        /\ ret' = [op |-> "handle_deletion", ok |-> r.ok, arg |-> deletion,
                   failing |-> failing, invoked |-> r.invoked]
        /\ UNCHANGED <<now, storeVars, engine, probe, mainVars, histVars, trackerVars>>

\* OutputManager::finalize
Finalize(failAt) ==
    LET r == ManagerFinalize(handlers, 1, failAt)
    IN  /\ ret' = [op |-> "finalize", ok |-> r.ok, failAt |-> failAt,
                   finalized |-> r.finalized]
        /\ UNCHANGED <<now, storeVars, engine, delivered, probe, mainVars, histVars,
                       trackerVars>>

\* The calls an owner of an OutputManager can make, in any order.
NextOutput ==
    \/ \E failAt \in InitFailures(handlers) : Initialize(failAt)
    \/ \E d \in OutputRecords(now), failing \in FailingSets(handlers) :
           HandleDeletion(d, failing)
    \/ \E failAt \in FinalizeFailures(handlers) : Finalize(failAt)

SpecOutput == InitOutput /\ [][NextOutput]_vars

\* ------------------------------------------------------------- properties

RowsOf(table, message_id) == {r \in table : r.message_id = message_id}

\* C1 (SpecStore): after any sequence of store_fingerprint calls the table
\* holds at most one row per message id, and get_fingerprint(id) is exactly
\* the fingerprint of the last successful put for id that no purge removed
\* since (None when there is none), attachment list included.
C1_LastWriteWins ==
    /\ \A id \in MessageIds :
          /\ Cardinality(RowsOf(message_fingerprints, id)) <= 1
          /\ GetFingerprint(message_fingerprints, id) = lastPut[id]
    /\ (ret.op = "get_fingerprint" /\ ret.ok) => ret.val = lastPut[ret.arg]

\* A get returns the later of two puts for the same id.
C1_Witness ==
    /\ ret.op = "get_fingerprint"
    /\ ret.arg \in replaced
    /\ IsSome(ret.val)
    /\ Unwrap(ret.val).attachment_hashes = <<"x", "y">>
    /\ \E other \in MessageIds \ {ret.arg} :
          IsSome(GetFingerprint(message_fingerprints, other))

\* C2 (SpecStore): the ids store_deletion returns are strictly increasing over
\* the whole life of the database file, across purges and restarts, no id is
\* returned twice, and no two rows of the journal share an id.
C2_JournalIdsIncrease ==
    /\ \A i \in 1..Len(issued) : \A j \in 1..Len(issued) :
          i < j => issued[i].id < issued[j].id
    /\ (ret.op = "store_deletion" /\ ret.ok) =>
          /\ Len(issued) > 0
          /\ ret.val = issued[Len(issued)].id
    /\ \A r1 \in deletion_records : \A r2 \in deletion_records :
          r1.id = r2.id => r1 = r2

\* An id was assigned after a restart whose purge had removed the row with
\* the largest id.
C2_Witness ==
    /\ ret.op = "store_deletion"
    /\ ret.ok
    /\ Len(issued) >= 2
    /\ issued[Len(issued)].after_purge

\* C3 (SpecStore): a cleanup_old_records that succeeds removes from both tables
\* every row whose timestamp is below the cutoff and no other row: the rows at
\* or above the cutoff are in the table afterwards as they were.
C3_PurgeBelowCutoffOnly ==
    [][(conn = "closed" /\ conn' = "open") =>
          /\ message_fingerprints' \subseteq message_fingerprints
          /\ deletion_records' \subseteq deletion_records
          /\ \A r \in message_fingerprints :
                (r \in message_fingerprints') <=> (r.timestamp >= ret'.arg)
          /\ \A r \in deletion_records :
                (r \in deletion_records') <=> (r.deletion_timestamp >= ret'.arg)]_vars

\* A purge removed rows of both tables and left a row of each whose timestamp
\* is the cutoff itself.
C3_Witness ==
    /\ ret.op = "new"
    /\ ret.ok
    /\ ret.deleted_fingerprints > 0
    /\ ret.deleted_records > 0
    /\ \E r \in message_fingerprints : r.timestamp = ret.arg
    /\ \E r \in deletion_records : r.deletion_timestamp = ret.arg

Fired(r) == ~r.err /\ IsSome(r.val)

\* C4 (SpecDetect): for a transition with a previous fingerprint and no current
\* one, under a config that enables FullMessage and AttachmentOnly, the detector
\* loop yields exactly one record, tagged FullMessage; the full-message
\* detector fires and the attachment detector returns no result.
C4_VanishedIsFullMessage ==
    (/\ IsSome(probe.previous_state)
     /\ probe.current_state = None
     /\ {FullMessage, AttachmentOnly} \subseteq engine.config.deletion_types) =>
        /\ ret.op = "run_detectors" =>
              /\ Len(ret.val.records) = 1
              /\ ret.val.records[1].deletion_type = "FullMessage"
        /\ (ret.op = "detect" /\ ret.detector = "FullMessageDeletion") =>
              /\ Fired(ret.val)
              /\ Unwrap(ret.val.val).deletion_type = FullMessage
        /\ (ret.op = "detect" /\ ret.detector = "AttachmentDeletion") =>
              ret.val = Ok(None)

\* previous {A, [x, y]}, current absent: the loop yielded the one record.
C4_Witness ==
    /\ IsSome(probe.previous_state)
    /\ Unwrap(probe.previous_state).attachment_hashes = <<"x", "y">>
    /\ probe.current_state = None
    /\ engine.detectors = <<"FullMessageDeletion", "AttachmentDeletion">>
    /\ ret.op = "run_detectors"
    /\ Len(ret.val.records) = 1
    /\ ret.val.records[1].deletion_type = "FullMessage"

\* C5 (SpecDetect): for a transition whose two fingerprints have the same
\* content hash and whose current attachment list lacks a hash of the previous
\* one, the full-message detector returns no result, the attachment detector
\* fires with AttachmentOnly, and the loop's record (one, when AttachmentOnly
\* is enabled) is tagged AttachmentOnly.
C5_LostAttachmentIsAttachmentOnly ==
    (/\ IsSome(probe.previous_state)
     /\ IsSome(probe.current_state)
     /\ Unwrap(probe.previous_state).content_hash
            = Unwrap(probe.current_state).content_hash
     /\ SeqRange(Unwrap(probe.previous_state).attachment_hashes)
            \ SeqRange(Unwrap(probe.current_state).attachment_hashes) # {}) =>
        /\ (ret.op = "detect" /\ ret.detector = "FullMessageDeletion") =>
              ret.val = Ok(None)
        /\ (ret.op = "detect" /\ ret.detector = "AttachmentDeletion") =>
              /\ Fired(ret.val)
              /\ Unwrap(ret.val.val).deletion_type = AttachmentOnly
        /\ ret.op = "run_detectors" =>
              /\ \A i \in 1..Len(ret.val.records) :
                    ret.val.records[i].deletion_type = "AttachmentOnly"
              /\ AttachmentOnly \in engine.config.deletion_types =>
                    Len(ret.val.records) = 1

\* previous {A, [x, y]}, current {A, [x]}: the loop's record reports [y].
C5_Witness ==
    /\ IsSome(probe.previous_state)
    /\ IsSome(probe.current_state)
    /\ Unwrap(probe.previous_state).content_hash = "A"
    /\ Unwrap(probe.current_state).content_hash = "A"
    /\ Unwrap(probe.previous_state).attachment_hashes = <<"x", "y">>
    /\ Unwrap(probe.current_state).attachment_hashes = <<"x">>
    /\ engine.detectors = <<"FullMessageDeletion", "AttachmentDeletion">>
    /\ ret.op = "run_detectors"
    /\ Len(ret.val.records) = 1
    /\ ret.val.records[1].deletion_type = "AttachmentOnly"
    /\ ret.val.records[1].recovered_attachments = <<"y">>

\* C6 (SpecDetect): with track_edits_as_deletions = false, for a transition
\* whose two fingerprints are present with different content hashes, no
\* detector of the active list fires and the loop yields no record.
C6_NoDetectorFiresOnEdit ==
    (/\ ~engine.config.track_edits_as_deletions
     /\ IsSome(probe.previous_state)
     /\ IsSome(probe.current_state)
     /\ Unwrap(probe.previous_state).content_hash
            # Unwrap(probe.current_state).content_hash) =>
        /\ (ret.op = "detect" /\ ret.detector \in SeqRange(engine.detectors)) =>
              ret.val = Ok(None)
        /\ ret.op = "run_detectors" => ret.val.records = <<>>

\* The tag of the record each detector yields.
TagOf(name) ==
    CASE name = "FullMessageDeletion" -> "FullMessage"
      [] name = "AttachmentDeletion" -> "AttachmentOnly"
      [] name = "PartialEdit" -> "PartialEdit"

ProbeFires(name) ==
    Fired(DetectDeletion(name, 1, probe.current_state, probe.previous_state,
                         engine.config))

\* C9 (SpecDetect): the active detectors are in the order full-message,
\* attachment, partial-edit; the loop invokes them in that order up to and
\* including the first that returns a result, whose tag the record carries;
\* no detector after it is invoked, and at most one record is yielded.
C9_FirstMatchWins ==
    ret.op = "run_detectors" =>
        LET ran == ret.val.ran
            records == ret.val.records
            detectors == engine.detectors
        IN  /\ detectors =
                  SelectSeq(<<"FullMessageDeletion", "AttachmentDeletion", "PartialEdit">>,
                            LAMBDA d : d \in SeqRange(detectors))
            /\ Len(records) <= 1
            /\ Len(ran) <= Len(detectors)
            /\ ran = SubSeq(detectors, 1, Len(ran))
            /\ \A i \in 1..(Len(ran) - 1) : ~ProbeFires(ran[i])
            /\ records = <<>> =>
                  /\ ran = detectors
                  /\ \A i \in 1..Len(ran) : ~ProbeFires(ran[i])
            /\ records # <<>> =>
                  /\ ProbeFires(ran[Len(ran)])
                  /\ records[1].deletion_type = TagOf(ran[Len(ran)])

\* The full-message detector fired first, and the partial-edit detector, which
\* would have fired on the same transition, was not invoked.
C9_Witness ==
    /\ ret.op = "run_detectors"
    /\ engine.detectors = <<"FullMessageDeletion", "AttachmentDeletion", "PartialEdit">>
    /\ ret.val.ran = <<"FullMessageDeletion">>
    /\ ProbeFires("PartialEdit")
    /\ Len(ret.val.records) = 1
    /\ ret.val.records[1].deletion_type = "FullMessage"

Occurrences(ids, id) == Cardinality({i \in 1..Len(ids) : ids[i] = id})

NewDeliveries(h, id) ==
    {i \in (Len(delivered[h]) + 1)..Len(delivered'[h]) :
        delivered'[h][i].message_id = id}

\* C7 (Spec): when handle_event handles MessagesModified(ids) with no write and
\* no handler failing, for each id of ids that has a stored fingerprint (its
\* current fingerprint resolves to none) the journal gains exactly one row with
\* that message id and every handler is handed exactly one record for it,
\* carrying the id of that row.
C7_EndToEndOneRecord ==
    [][(/\ ret'.op = "handle_event"
        /\ ret' # ret
        /\ ret'.ok
        /\ ret'.failing = {}
        /\ ret'.arg.kind = "MessagesModified") =>
          \A id \in SeqRange(ret'.arg.ids) :
              (/\ Occurrences(ret'.arg.ids, id) = 1
               /\ IsSome(GetFingerprint(message_fingerprints, id))
               /\ BuildCurrentFingerprint(id) = None) =>
                  /\ Cardinality(RowsOf(deletion_records' \ deletion_records, id)) = 1
                  /\ \A h \in 1..Len(Handlers) :
                        /\ Cardinality(NewDeliveries(h, id)) = 1
                        /\ \A i \in NewDeliveries(h, id) :
                              \E r \in deletion_records' \ deletion_records :
                                  r.id = delivered'[h][i].id]_vars

\* C10 (Spec): a process_event call yields no record for an id that an earlier
\* call reported and whose fingerprint nobody has put since.
C10_NeverReportedTwice ==
    [][(ret'.op = "process_event" /\ ret' # ret) =>
          \A i \in 1..Len(ret'.val) : ret'.val[i].message_id \notin reported]_vars

\* C14 (SpecOutput): a handle_deletion call of the manager invokes every
\* handler once, in the configured order, whichever handlers fail; every
\* handler after a failing one that does not fail itself has the record as
\* its newest entry; and the call returns Ok, so that the caller's loop goes
\* on to its next record.
C14_SinkFailureDoesNotBlock ==
    ret.op = "handle_deletion" =>
        /\ ret.ok
        /\ ret.invoked = [i \in 1..Len(handlers) |-> i]
        /\ \A i \in ret.failing : \A j \in (i + 1)..Len(handlers) :
              (j \notin ret.failing /\ HandlerWrites(handlers[j])) =>
                  /\ delivered[j] # <<>>
                  /\ delivered[j][Len(delivered[j])] = ret.arg

\* The first of two handlers failed on two records in turn, and the second
\* handler holds both.
C14_Witness ==
    /\ ret.op = "handle_deletion"
    /\ Len(handlers) = 2
    /\ ret.failing = {1}
    /\ delivered[1] = <<>>
    /\ Len(delivered[2]) = 2
    /\ delivered[2][1] # delivered[2][2]
    /\ delivered[2][2] = ret.arg

\* C15 (SpecTracker): when the initialize of a handler fails inside
\* DeletionTracker::new, new still returns the tracker (which can be started),
\* every other handler has been initialized, and the failed handler is not
\* among the handlers of the run.
C15_SinkInitFailureNotFatal ==
    (ret.op = "tracker_new" /\ ret.store_ok /\ ret.failInit # 0) =>
        /\ ret.ok
        /\ coord = "Initialized"
        /\ SeqRange(ret.initialized) =
               (1..Len(NewHandlers(outputs))) \ {ret.failInit}
        /\ Len(handlers) = Len(NewHandlers(outputs)) - 1

\* C16 (SpecTracker): a shutdown invokes finalize on every handler, also when
\* the finalize of an earlier handler fails, and ends in Stopped.
C16_FinalizeEverySink ==
    ret.op = "shutdown" =>
        /\ ret.finalized = [i \in 1..ret.handlers |-> i]
        /\ coord = "Stopped"

\* C17 (SpecTracker): a check_for_changes that fails makes the stream yield
\* exactly one MonitoringError and leaves the tracker in its loop; handling a
\* MonitoringError changes neither table nor the outputs and leaves the tracker
\* in Running with the next check due; and Running is left only by a cancel
\* or by the end of the process, never by an error.
C17_ObserverErrorKeepsPolling ==
    [][/\ (ret'.op = "check_for_changes" /\ ~ret'.ok) =>
              /\ pending' = <<MonitoringError>>
              /\ coord' = "Running"
       /\ (ret'.op = "handle_event" /\ ret'.arg.kind = "MonitoringError") =>
              /\ ret'.ok
              /\ coord' = "Running"
              /\ pending' = <<>>
              /\ message_fingerprints' = message_fingerprints
              /\ deletion_records' = deletion_records
              /\ sqlite_sequence' = sqlite_sequence
              /\ delivered' = delivered
       /\ (coord = "Running" /\ coord' # "Running") =>
              ret'.op \in {"cancel", "exit"}]_vars

\* After a check that succeeded, a later check failed, and its MonitoringError
\* has been handled: the tracker is in its loop, with journal rows in the store.
C17_Witness ==
    /\ ret.op = "handle_event"
    /\ ret.arg.kind = "MonitoringError"
    /\ coord = "Running"
    /\ pending = <<>>
    /\ last_wal_size # 0
    /\ deletion_records # {}

\* C19 (SpecTracker): no output ever holds two records with the same journal
\* id, and constructing the tracker (the start of every run, the first and
\* the ones after a crash) hands nothing to any output, whatever the journal
\* holds.
C19_NoRedispatch ==
    [][/\ \A h \in DOMAIN delivered' :
              \A i \in 1..Len(delivered'[h]) : \A j \in 1..Len(delivered'[h]) :
                  i # j => delivered'[h][i].id # delivered'[h][j].id
       /\ ret'.op = "tracker_new" => delivered' = delivered]_vars

\* A tracker was constructed over a journal that held rows of an earlier run.
C19_Witness ==
    /\ ret.op = "tracker_new"
    /\ ret.ok
    /\ ret.journal > 0
    /\ Len(issued) > 0
    /\ coord = "Initialized"
    /\ \A h \in DOMAIN delivered : delivered[h] = <<>>

\* C20 (SpecBatch): a batch_store_fingerprints that returns Ok leaves, for
\* every message id of the slice, the slice's last entry for that id as the
\* stored fingerprint, and every other row as it was; one that returns Err,
\* wherever it failed, leaves the table exactly as it was before the call.
C20_BatchAllOrNothing ==
    [][ret'.op = "batch_store_fingerprints" =>
          LET fingerprints == ret'.arg
              ids == {fingerprints[k].message_id : k \in 1..Len(fingerprints)}
          IN  IF ret'.ok
              THEN /\ \A id \in ids :
                          GetFingerprint(message_fingerprints', id)
                              = LastEntryFor(fingerprints, id)
                   /\ \A id \in MessageIds \ ids :
                          RowsOf(message_fingerprints', id)
                              = RowsOf(message_fingerprints, id)
                   /\ \A id \in MessageIds :
                          Cardinality(RowsOf(message_fingerprints', id)) <= 1
              ELSE message_fingerprints' = message_fingerprints]_vars

\* A batch of two entries failed at its second entry, after the first had
\* been written over a stored row of the same message: the stored row is the
\* old one.
C20_Witness ==
    /\ ret.op = "batch_store_fingerprints"
    /\ ~ret.ok
    /\ ret.failAt = 2
    /\ Len(ret.arg) = 2
    /\ ret.arg[1].message_id # ret.arg[2].message_id
    /\ IsSome(GetFingerprint(message_fingerprints, ret.arg[1].message_id))
    /\ GetFingerprint(message_fingerprints, ret.arg[1].message_id) # Some(ret.arg[1])
    /\ GetFingerprint(message_fingerprints, ret.arg[2].message_id) = None

\* C21: a range query succeeds and returns exactly the journal rows whose
\* deletion_timestamp lies in [start_time, end_time], each with the values
\* it was appended with, ordered by deletion_timestamp descending.
C21_RangeQueryReturnsJournal ==
    ret.op = "get_deletions_in_range" =>
        LET inRange == RowsBetween(deletion_records, ret.start_time, ret.end_time)
            n == Len(ret.val)
        IN  /\ ret.ok
            /\ n = Cardinality(inRange)
            /\ \A i \in 1..n : DeletionRow(ret.val[i].id, ret.val[i]) \in inRange
            /\ \A i \in 1..n, j \in 1..n :
                   i < j => /\ ret.val[i].id # ret.val[j].id
                            /\ ret.val[i].deletion_timestamp
                                   >= ret.val[j].deletion_timestamp

\* C22 (SpecTracker): a cancellation is taken only when no event of a check
\* is waiting to be handled, and a cancelled tracker goes nowhere but to
\* Stopped, with its handlers finalized: the run does not end, and the
\* shutdown does not fail, in between.
C22_CancelDrainsToStopped ==
    [][/\ (coord = "Running" /\ coord' = "Cancelled") => pending = <<>>
       /\ coord = "Cancelled" =>
              \/ coord' = "Cancelled"
              \/ /\ coord' = "Stopped"
                 /\ ret'.op = "shutdown"
                 /\ ret'.finalized = [i \in 1..ret'.handlers |-> i]]_vars

\* C23 (SpecTracker): the loop is sequential. A check_for_changes runs only
\* when every event of the check before it has been handled, and the events
\* of a check are handled one at a time, in the order the check produced
\* them, by one handle_event each.
C23_TickHandledBeforeNextPoll ==
    [][/\ ret'.op = "check_for_changes" => pending = <<>>
       /\ ret'.op = "handle_event" =>
              /\ pending # <<>>
              /\ ret'.arg = Head(pending)
              /\ pending' = Tail(pending)]_vars

\* The MessagesModified of a check has been handled and its
\* TransactionComplete is still to be handled: the next check has to wait.
C23_Witness ==
    /\ coord = "Running"
    /\ ret.op = "handle_event"
    /\ ret.arg.kind = "MessagesModified"
    /\ Len(pending) = 1
    /\ pending[1].kind = "TransactionComplete"

\* The entries of seq that are not in the set S, in the order of seq.
RECURSIVE Without(_, _)
Without(seq, S) ==
    IF seq = <<>> THEN <<>>
    ELSE (IF Head(seq) \in S THEN <<>> ELSE <<Head(seq)>>) \o Without(Tail(seq), S)

\* C24 (SpecDetect): the attachment detector returns Ok; it fires exactly
\* when both fingerprints are present, their content hashes are equal and
\* some attachment hash of the previous one is not among the current ones;
\* what it reports is AttachmentOnly, no content, and the previous attachment
\* hashes that are not among the current ones, in the previous order. It does
\* not fire when no previous hash is missing (reordered, added, unchanged).
C24_AttachmentOnlyExactly ==
    (ret.op = "detect" /\ ret.detector = "AttachmentDeletion") =>
        LET p == probe.previous_state
            c == probe.current_state
            lost == IF IsSome(p) /\ IsSome(c)
                    THEN Without(Unwrap(p).attachment_hashes,
                                 SeqRange(Unwrap(c).attachment_hashes))
                    ELSE <<>>
        IN  /\ ~ret.val.err
            /\ Fired(ret.val) <=>
                   /\ IsSome(p) /\ IsSome(c)
                   /\ Unwrap(p).content_hash = Unwrap(c).content_hash
                   /\ lost # <<>>
            /\ Fired(ret.val) =>
                   Unwrap(ret.val.val) = DetectionResult(AttachmentOnly, None, lost)

\* previous {A, [y, x]}, current {A, [x]}: the detector reports [y].
C24_Witness ==
    /\ ret.op = "detect"
    /\ ret.detector = "AttachmentDeletion"
    /\ IsSome(probe.previous_state)
    /\ IsSome(probe.current_state)
    /\ Unwrap(probe.previous_state).content_hash
           = Unwrap(probe.current_state).content_hash
    /\ Unwrap(probe.previous_state).attachment_hashes = <<"y", "x">>
    /\ Unwrap(probe.current_state).attachment_hashes = <<"x">>
    /\ Fired(ret.val)
    /\ Unwrap(ret.val.val).recovered_attachments = <<"y">>

\* The position of a detector in the list DetectionEngine::new starts from.
PriorityOf(name) == CHOOSE i \in 1..Len(AllDetectors) : AllDetectors[i] = name

\* C25 (SpecDetect): a detector none of whose supported types is enabled is
\* not in the engine's list; the detectors that are in it are those with an
\* enabled type, each once, in the order of the full list; and no record of
\* the detector loop is tagged with a type that is not enabled.
C25_DisabledDetectorAbsent ==
    LET detectors == engine.detectors
        enabled == engine.config.deletion_types
    IN  /\ \A d \in SeqRange(AllDetectors) :
               d \in SeqRange(detectors) <=> SupportedTypes(d) \cap enabled # {}
        /\ \A i \in 1..Len(detectors), j \in 1..Len(detectors) :
               i < j => PriorityOf(detectors[i]) < PriorityOf(detectors[j])
        /\ ret.op = "run_detectors" =>
               /\ SeqRange(ret.val.ran) \subseteq SeqRange(detectors)
               /\ \A k \in 1..Len(ret.val.records) :
                      ret.val.records[k].deletion_type
                          \in {DebugFormat(dt) : dt \in enabled}

\* FullMessage is not enabled and the message has vanished: the loop ran the
\* attachment and the partial-edit detector, in that order, and the
\* full-message detector, which fires on this transition, was not there.
C25_Witness ==
    /\ engine.config.deletion_types = {AttachmentOnly, PartialEdit}
    /\ engine.detectors = <<"AttachmentDeletion", "PartialEdit">>
    /\ IsSome(probe.previous_state)
    /\ ~IsSome(probe.current_state)
    /\ ProbeFires("FullMessageDeletion")
    /\ ret.op = "run_detectors"
    /\ ret.val.ran = <<"AttachmentDeletion", "PartialEdit">>
    /\ ret.val.records = <<>>

\* The MessagesModified events among the events a check left to be yielded.
ModifiedIn(events) ==
    {i \in 1..Len(events) : events[i].kind = "MessagesModified"}

\* C26 (SpecMonitor): a check that finds the -wal file at the size recorded
\* by the last sample does not call detect_message_changes and yields no
\* MessagesModified; a check yields a MessagesModified only when the file is
\* there with a size that differs from the recorded one.
C26_UnchangedSizeNoQuery ==
    [][ret'.op = "check_for_changes" =>
          /\ (IsSome(ret'.wal) /\ Unwrap(ret'.wal) = last_wal_size) =>
                 /\ ~ret'.queried
                 /\ ModifiedIn(pending') = {}
          /\ ModifiedIn(pending') # {} =>
                 /\ IsSome(ret'.wal)
                 /\ Unwrap(ret'.wal) # last_wal_size
                 /\ ret'.queried]_vars

\* A check found the -wal file at the size recorded before, while the table
\* message held rows a query would have returned: nothing was queried and
\* nothing is yielded.
C26_Witness ==
    /\ ret.op = "check_for_changes"
    /\ ret.ok
    /\ ret.wal = Some(last_wal_size)
    /\ last_wal_size # 0
    /\ ~ret.queried
    /\ pending = <<>>
    /\ messages # {}

\* C27 (SpecMonitor): a check that finds no -wal file returns Ok with no
\* event (nothing is yielded, no MonitoringError either), queries nothing,
\* leaves last_wal_size and last_check as they were, and leaves the tracker
\* in its loop with the next check due.
C27_AbsentLogSkipsTick ==
    [][(ret'.op = "check_for_changes" /\ ~IsSome(ret'.wal)) =>
          /\ ret'.ok
          /\ ~ret'.queried
          /\ pending' = <<>>
          /\ last_wal_size' = last_wal_size
          /\ last_check' = last_check
          /\ coord' = "Running"]_vars

\* The -wal file was absent at a check made after an earlier check had
\* recorded a size and a time, and the clock had moved on since.
C27_Witness ==
    /\ ret.op = "check_for_changes"
    /\ ~IsSome(ret.wal)
    /\ last_wal_size # 0
    /\ 0 < last_check
    /\ last_check < now
    /\ pending = <<>>
    /\ coord = "Running"

\* C28 (SpecMonitor): a MessagesModified event never carries more than
\* max_batch_size ids, however many rows the table message holds.
C28_BatchSizeCapped ==
    \A i \in ModifiedIn(pending) : Len(pending[i].ids) <= MaxBatchSize

\* The table message holds more rows than max_batch_size and the event of
\* the check carries max_batch_size of them.
C28_Witness ==
    /\ Cardinality(messages) > MaxBatchSize
    /\ pending # <<>>
    /\ pending[1].kind = "MessagesModified"
    /\ Len(pending[1].ids) = MaxBatchSize
    /\ ret.op = "check_for_changes"

\* C29 (SpecMonitor): every id a check reports in a MessagesModified is the
\* ROWID of a row whose date is later than the time of the last check that
\* completed (last_check, as it was when the check began).
C29_OnlyRowsSinceLastPoll ==
    [][ret'.op = "check_for_changes" =>
          \A i \in ModifiedIn(pending') :
              \A k \in 1..Len(pending'[i].ids) :
                  \A r \in messages :
                      r.rowid = pending'[i].ids[k] => r.date > AppleDate(last_check)]_vars

\* How far a tracker is in its life: constructed (Initializing is over),
\* in its loop, cancelled or in a shutdown that failed (Draining), stopped.
Phase(c) ==
    CASE c = "Idle" -> 0
      [] c = "Initialized" -> 1
      [] c = "Running" -> 2
      [] c \in {"Cancelled", "Failed"} -> 3
      [] c = "Stopped" -> 4

\* C30 (SpecTracker): within one run the tracker only moves forward through
\* Idle, Initialized, Running, Cancelled, Stopped. It enters its loop only
\* from a constructed tracker, with the state database open, exactly one
\* cleanup_old_records call made and every handler initialized; while it is
\* in the loop no purge runs and no row leaves a table; a DeletionTracker::new
\* whose StateManager::new fails returns Err, leaves no tracker and no open
\* database, and no event is handled outside the loop.
C30_LifecycleOrder ==
    [][/\ ret'.op # "exit" => Phase(coord) <= Phase(coord')
       /\ (coord # "Running" /\ coord' = "Running") =>
              /\ coord = "Initialized"
              /\ conn = "open"
              /\ purges = 1
              /\ handlers = ManagerInitialize(NewHandlers(outputs), 1, 0).handlers
              /\ pending' = <<>>
       /\ (coord = "Running" /\ coord' = "Running") =>
              /\ purges' = purges
              /\ message_fingerprints \subseteq message_fingerprints'
              /\ deletion_records \subseteq deletion_records'
       /\ (ret'.op = "tracker_new" /\ ~ret'.store_ok) =>
              /\ ~ret'.ok
              /\ coord' = "Idle"
              /\ conn' = "closed"
              /\ handlers' = <<>>
              /\ pending' = <<>>
       /\ ret'.op = "handle_event" =>
              /\ coord = "Running"
              /\ conn = "open"
              /\ purges = 1]_vars

\* A tracker that was constructed, ran its loop (a check recorded a size),
\* was cancelled and shut down: it is stopped, after one purge.
C30_Witness ==
    /\ coord = "Stopped"
    /\ ret.op = "shutdown"
    /\ ret.ok
    /\ last_wal_size # 0
    /\ purges = 1

\* The values a fingerprint retains of its message.
RetainedBy(fp) ==
    {fp.content_hash} \cup SeqRange(fp.attachment_hashes)
        \cup (IF IsSome(fp.sender_handle) THEN {Unwrap(fp.sender_handle)} ELSE {})

\* C31 (SpecDetect): whenever the full-message detector fires there is a
\* previous fingerprint, the recovered_content of its result is a value that
\* fingerprint retains, and its recovered_attachments are the attachment
\* hashes of that fingerprint.
C31_RecoveredFromPrevious ==
    (ret.op = "detect" /\ ret.detector = "FullMessageDeletion" /\ Fired(ret.val)) =>
        /\ IsSome(probe.previous_state)
        /\ IsSome(Unwrap(ret.val.val).recovered_content)
        /\ Unwrap(Unwrap(ret.val.val).recovered_content)
               \in RetainedBy(Unwrap(probe.previous_state))
        /\ Unwrap(ret.val.val).recovered_attachments
               = Unwrap(probe.previous_state).attachment_hashes

\* C32 (Spec): build_current_fingerprint resolves to none for every id, and
\* every record a process_event call returns is tagged FullMessage, whatever
\* the configuration enables and whatever fingerprints are stored.
C32_OnlyFullMessageRecords ==
    /\ \A id \in MessageIds : BuildCurrentFingerprint(id) = None
    /\ ret.op = "process_event" =>
           \A k \in 1..Len(ret.val) :
               ret.val[k].deletion_type = DebugFormat(FullMessage)

\* A process_event call over two ids with stored fingerprints, one of them
\* with attachments, under a configuration that enables AttachmentOnly:
\* it returned two records.
C32_Witness ==
    /\ ret.op = "process_event"
    /\ ret.ok
    /\ AttachmentOnly \in engine.config.deletion_types
    /\ Len(ret.val) = 2
    /\ ret.val[1].message_id # ret.val[2].message_id
    /\ \E k \in 1..2 : ret.val[k].original_fingerprint.attachment_hashes # <<>>

\* ------------------------------------------------- the journal kept whole

\* Every operation of a running store and the engine's process call, in any
\* order. The retention purge runs in StateManager::new alone, which none of
\* these calls.
NextAppendOnly ==
    \/ \E fp \in FingerprintInputs(now), ok \in BOOLEAN : StoreFingerprint(fp, ok)
    \/ \E fps \in {b \in BatchInputs(now) :
                      Len(b) = 2 /\ \A k \in 1..2 : b[k].content_hash = "B"} :
           \E failAt \in -1..(Len(fps) + 1) : BatchStoreFingerprints(fps, failAt)
    \/ \E d \in DeletionInputs(now), ok \in BOOLEAN : StoreDeletion(d, ok)
    \/ \E e \in Events : \E failAt \in 0..Len(e.ids) : ProcessEvent(e, failAt)
    \/ GetDeletionsInRange(0, MaxDay * SecondsPerDay)
    \/ \E id \in MessageIds : GetFingerprintCall(id)

SpecAppendOnly == InitStoreOnly /\ [][NextAppendOnly]_vars

\* The message ids that have a row in a fingerprint table.
FingerprintIds(table) == {r.message_id : r \in table}

\* C33: the journal is append-only. A step of the running store (none of them
\* is the restart's retention purge) keeps every row of deletion_records
\* exactly as it was (the same id with the same fields) and keeps a
\* fingerprint row for every message id that had one; store_deletion, store_fingerprint, batch_store_fingerprints,
\* process_event and get_deletions_in_range leave the existing rows unchanged.
C33_JournalAppendOnly ==
    [][/\ deletion_records \subseteq deletion_records'
       /\ FingerprintIds(message_fingerprints) \subseteq
              FingerprintIds(message_fingerprints')
       /\ ret'.op \in {"store_fingerprint", "batch_store_fingerprints",
                       "process_event", "get_deletions_in_range",
                       "get_fingerprint"}
              => deletion_records' = deletion_records]_vars

\* A second record of a message that is in the journal was appended, and the
\* first one is still there beside it.
C33_Witness ==
    /\ ret.op = "store_deletion" /\ ret.ok
    /\ \E a \in deletion_records, b \in deletion_records :
           /\ a.id < b.id /\ b.id = ret.val
           /\ a.message_id = b.message_id
    /\ message_fingerprints # {}

\* C34: every record a process_event call returns carries, as its original
\* fingerprint, the fingerprint that was stored for its message id when the call
\* read it; an id with no stored fingerprint gets no record, so the placeholder
\* fingerprint with content hash "unknown" is in no record.
C34_OriginIsStoredFingerprint ==
    [][ret'.op = "process_event" =>
           \A k \in 1..Len(ret'.val) :
               LET previous_state ==
                       GetFingerprint(message_fingerprints, ret'.val[k].message_id)
               IN  /\ IsSome(previous_state)
                   /\ ret'.val[k].original_fingerprint = Unwrap(previous_state)
                   /\ ret'.val[k].original_fingerprint.content_hash # "unknown"]_vars

\* A call over two messages, one with a stored fingerprint and one without,
\* returned a record for the first and none for the second.
C34_Witness ==
    /\ ret.op = "process_event" /\ ret.ok
    /\ Len(ret.arg.ids) = 2
    /\ Len(ret.val) = 1
    /\ \E id \in RecordIds(ret.val) :
           /\ IsSome(GetFingerprint(message_fingerprints, id))
           /\ ret.val[1].original_fingerprint =
                  Unwrap(GetFingerprint(message_fingerprints, id))
    /\ \E k \in 1..2 : GetFingerprint(message_fingerprints, ret.arg.ids[k]) = None

\* C36: a process_event call that fails loses no detection. After a call that
\* returned Err (and so returned no record), a message whose stored fingerprint
\* the call changed is one for which the detectors find nothing between the
\* fingerprint stored before and the one stored after: no baseline moved past
\* a deletion whose record was dropped with the error.
C36_FailedCallLosesNoDetection ==
    [][(ret'.op = "process_event" /\ ~ret'.ok) =>
           /\ ret'.val = <<>>
           /\ \A id \in MessageIds :
                  LET previous_state == GetFingerprint(message_fingerprints, id)
                      stored == GetFingerprint(message_fingerprints', id)
                  IN  stored # previous_state =>
                          RunDetectors(engine.detectors, 1, id, stored,
                                       previous_state, engine.config,
                                       now).records = <<>>]_vars

\* A call over two ids failed on the second after the detectors had found the
\* deletion of the first: no record was returned and the fingerprint of the
\* first is still the stored one.
C36_Witness ==
    /\ ret.op = "process_event" /\ ~ret.ok
    /\ Len(ret.arg.ids) = 2 /\ Len(ret.ran) = 1
    /\ ret.val = <<>>
    /\ LET message_id == ret.arg.ids[1]
           previous_state == GetFingerprint(message_fingerprints, message_id)
       IN  /\ IsSome(previous_state)
           /\ RunDetectors(engine.detectors, 1, message_id,
                           BuildCurrentFingerprint(message_id), previous_state,
                           engine.config, now).records # <<>>

\* C35 (SpecMonitor): a size change is not lost to a failed check. A check
\* that returns Err leaves last_wal_size as it was; last_wal_size changes only
\* in a check that queried and returned Ok, and then to the size sampled; a
\* check that read the size of the -wal file (it returned Ok or came to the
\* query) and found it different from last_wal_size queried. So when the query
\* of a check fails, the size it sampled still differs from the recorded one,
\* and the next check that reads the same size queries again.
C35_FailedCheckKeepsSize ==
    [][ret'.op = "check_for_changes" =>
          /\ ~ret'.ok => last_wal_size' = last_wal_size
          /\ last_wal_size' # last_wal_size =>
                 /\ ret'.ok /\ ret'.queried
                 /\ ret'.wal = Some(last_wal_size')
          /\ (IsSome(ret'.wal) /\ (ret'.ok \/ ret'.queried)
                 /\ Unwrap(ret'.wal) # last_wal_size) => ret'.queried
          /\ (~ret'.ok /\ ret'.queried) =>
                 /\ Unwrap(ret'.wal) # last_wal_size'
                 /\ MonitoringError \in {pending'[i] : i \in 1..Len(pending')}]_vars

\* The query of a check failed on a -wal file that had grown since an earlier
\* check recorded its size: the recorded size is still the earlier one.
C35_Witness ==
    /\ ret.op = "check_for_changes"
    /\ ~ret.ok /\ ret.queried
    /\ last_wal_size # 0
    /\ IsSome(ret.wal) /\ Unwrap(ret.wal) # last_wal_size
    /\ messages # {}

\* The plugins of the configs that are switched on.
EnabledPlugins(configs) ==
    {configs[k].plugin : k \in {j \in 1..Len(configs) : configs[j].enabled}}

\* No index occurs twice in a sequence of handler positions.
NoRepeat(positions) ==
    \A i \in 1..Len(positions), j \in 1..Len(positions) :
        positions[i] = positions[j] => i = j

\* C37 (SpecTracker): the calls an output handler receives in a run. A handler
\* exists only for an enabled config, and initialize, handle_deletion and
\* finalize go to handlers only, so a disabled output receives none of them.
\* A record is put out only by a tracker in its loop, whose handlers were all
\* initialized by new (the JSON handler holds its file), and so never after
\* shutdown, which finalizes and drops them. shutdown finalizes each handler
\* at most once and only exit follows it.
C37_SinkProtocol ==
    [][/\ \A i \in 1..Len(handlers') :
              handlers'[i].plugin \in EnabledPlugins(outputs')
       /\ ret'.op = "tracker_new" =>
              /\ NoRepeat(ret'.initialized)
              /\ \A k \in 1..Len(ret'.initialized) :
                     NewHandlers(outputs)[ret'.initialized[k]].plugin
                         \in EnabledPlugins(outputs)
              /\ ret'.ok => ret'.initialized =
                                [i \in 1..Len(handlers') |-> i]
       /\ coord' \in {"Initialized", "Running", "Cancelled"} =>
              \A i \in 1..Len(handlers') :
                  handlers'[i] = HandlerInitialize(NewHandlers(outputs')[i])
       /\ delivered' # delivered =>
              /\ coord = "Running" /\ coord' = "Running"
              /\ \A i \in DOMAIN delivered :
                     delivered'[i] # delivered[i] =>
                         /\ i \in 1..Len(handlers)
                         /\ handlers[i] = HandlerInitialize(NewHandlers(outputs)[i])
       /\ ret'.op = "shutdown" =>
              /\ coord \in {"Initialized", "Cancelled"}
              /\ coord' \in {"Stopped", "Failed"}
              /\ NoRepeat(ret'.finalized)
              /\ \A k \in 1..Len(ret'.finalized) :
                     /\ ret'.finalized[k] \in 1..Len(handlers)
                     /\ handlers[ret'.finalized[k]].plugin
                            \in EnabledPlugins(outputs)
              /\ handlers' = <<>>
       /\ coord \in {"Stopped", "Failed"} => ret'.op = "exit"]_vars

\* A run with a disabled output went through new, its loop and a check, was
\* cancelled and shut down: each of its two handlers was finalized once.
C37_Witness ==
    /\ ret.op = "shutdown" /\ ret.ok
    /\ coord = "Stopped"
    /\ ret.finalized = <<1, 2>>
    /\ last_wal_size # 0
    /\ \E k \in 1..Len(outputs) : ~outputs[k].enabled
    /\ handlers = <<>>

\* ------------------------------------------------------------------ main.rs

\* str::trim, on a text held as a sequence of characters: the whitespace at
\* its start and at its end is taken off.
RECURSIVE Trim(_)
Trim(s) ==
    IF s # <<>> /\ Head(s) = " " THEN Trim(Tail(s))
    ELSE IF s # <<>> /\ s[Len(s)] = " " THEN Trim(SubSeq(s, 1, Len(s) - 1))
    ELSE s

\* struct RealMessage (database.rs), the fields check_for_changes compares;
\* conversation_filter is None, so handle_id and is_from_me select nothing.
RealMessage(id, text, date_edited) ==
    [id |-> id, text |-> text, date_edited |-> date_edited]

\* The rows Messages.app writes: the text is NULL, the empty text, a blank or
\* a word; date_edited is NULL or a time.
MessageRows ==
    {RealMessage(id, text, date_edited) :
        id \in MessageIds,
        text \in {None, Some(<<>>), Some(<<" ">>), Some(<<"h", "i">>)},
        date_edited \in {None, Some(1), Some(2)}}

\* "a > b" on Option<i64>: None is less than every Some.
OptionGreater(a, b) ==
    IF ~IsSome(a) THEN FALSE
    ELSE IF ~IsSome(b) THEN TRUE
    ELSE Unwrap(a) > Unwrap(b)

\* "message.text.is_some() && message.text.as_ref().unwrap().trim() != """
HasText(message) == IsSome(message.text) /\ Trim(Unwrap(message.text)) # <<>>

\* check_for_changes, "let was_deleted = ..."
WasDeleted(cached_msg, current_msg) ==
    /\ IsSome(cached_msg.text)
    /\ Trim(Unwrap(cached_msg.text)) # <<>>
    /\ (~IsSome(current_msg.text) \/ Trim(Unwrap(current_msg.text)) = <<>>)
    /\ IsSome(current_msg.date_edited)
    /\ OptionGreater(current_msg.date_edited, cached_msg.date_edited)

\* HashMap::insert(message.id, message): the entry of the id is replaced.
CacheInsert(cache, message) ==
    {r \in cache : r.id # message.id} \cup {message}

\* A tracker that leaves the cached row in place after it wrote the event.
KeepCachedEntry(cache, current_msg) == cache

\* "self.message_cache.insert(current_msg.id, current_msg)" after
\* handle_deletion returned Ok: the cached row gives way to the current one.
ReplaceCached(cache, current_msg) == CacheInsert(cache, current_msg)

\* IMessageDatabase::get_messages_newer_than: WHERE ROWID > ? ORDER BY ROWID ASC
GetMessagesNewerThan(table, min_id) == RowsAscending({r \in table : r.id > min_id})

\* IMessageDatabase::get_messages_by_ids: WHERE ROWID IN (...)
GetMessagesByIds(table, message_ids) ==
    RowsAscending({r \in table : r.id \in message_ids})

\* load_initial_messages, "for message in filtered_messages", from the i-th on
RECURSIVE LoadInitialMessages(_, _, _)
LoadInitialMessages(cache, loaded, i) ==
    IF i > Len(loaded) THEN cache
    ELSE LoadInitialMessages(
             IF HasText(loaded[i]) THEN CacheInsert(cache, loaded[i]) ELSE cache,
             loaded, i + 1)

\* check_for_changes, "for message in filtered_messages", from the i-th on:
\* a new message with a text is cached.
RECURSIVE CacheNewMessages(_, _, _)
CacheNewMessages(cache, new_messages, i) ==
    IF i > Len(new_messages) THEN cache
    ELSE LET message == new_messages[i]
             known == \E r \in cache : r.id = message.id
         IN  CacheNewMessages(
                 IF ~known /\ HasText(message) THEN CacheInsert(cache, message)
                 ELSE cache,
                 new_messages, i + 1)

\* create_deletion_event: the event describes the cached message (timestamp,
\* attachments and sender are copied from fields that are not compared).
DeletionEvent(original_message) ==
    [message_id |-> original_message.id, content |-> original_message.text]

\* handle_deletion. file is None when output_path does not exist, else the
\* array of events the file holds. outcome names the step that fails: "read"
\* (read_to_string, when the file exists), "create" and "write" (std::fs::write
\* before and after it has truncated the file), "ok" when none does.
MainHandleDeletion(file, deletion, outcome) ==
    LET output_data == IF IsSome(file) THEN Unwrap(file) ELSE <<>>
    IN  IF outcome = "read" /\ IsSome(file) THEN [ok |-> FALSE, file |-> file]
        ELSE IF outcome = "create" THEN [ok |-> FALSE, file |-> file]
        ELSE IF outcome = "write" THEN [ok |-> FALSE, file |-> Some(<<>>)]
        ELSE [ok |-> TRUE, file |-> Some(Append(output_data, deletion))]

\* check_for_changes, "for current_msg in current_messages", from the i-th
\* row on. failAt is the row whose handle_deletion fails with outcome (0:
\* none); the "?" returns before the cache entry is replaced. fired: the
\* pairs (cached, current) whose event was written.
RECURSIVE CompareTracked(_, _, _, _, _, _)
CompareTracked(current_messages, i, cache, file, failAt, outcome) ==
    IF i > Len(current_messages)
    THEN [ok |-> TRUE, cache |-> cache, file |-> file, fired |-> <<>>]
    ELSE LET current_msg == current_messages[i]
             hit == {r \in cache : r.id = current_msg.id}
             cached_msg == CHOOSE r \in hit : TRUE
             h == MainHandleDeletion(file, DeletionEvent(cached_msg),
                                     IF failAt = i THEN outcome ELSE "ok")
         IN  IF hit = {} \/ ~WasDeleted(cached_msg, current_msg)
             THEN CompareTracked(current_messages, i + 1, cache, file, failAt,
                                 outcome)
             ELSE IF ~h.ok
             THEN [ok |-> FALSE, cache |-> cache, file |-> h.file, fired |-> <<>>]
             ELSE LET rest == CompareTracked(current_messages, i + 1,
                                             ReplaceCached(cache, current_msg),
                                             h.file, failAt, outcome)
                  IN  [rest EXCEPT !.fired =
                           <<[cached |-> cached_msg, current |-> current_msg]>>
                               \o @]

\* The binary has built its MessageTracker (MessageTracker::new) and has not
\* called start; chat.db holds no message yet and there is no output file.
InitMain ==
    /\ InitStore
    /\ coord = "Idle"
    /\ outputs = OutputConfigs
    /\ handlers = <<>>
    /\ pending = <<>>
    /\ last_wal_size = 0
    /\ last_check = 0
    /\ messages = {}
    /\ purges = 0
    /\ engine = NewEngine(DetectionConfig({FullMessage, AttachmentOnly}, FALSE))
    /\ probe = NoProbe
    /\ main = "New"
    /\ imessage_db = {}
    /\ message_cache = {}
    /\ output_file = None

\* Messages.app adds a row to the table message.
MessageSent(message) ==
    /\ main \in {"New", "Polling"}
    /\ \A r \in imessage_db : r.id # message.id
    /\ imessage_db' = imessage_db \cup {message}
    /\ ret' = [op |-> "message_sent", ok |-> TRUE]
    /\ UNCHANGED <<now, storeVars, engine, delivered, probe, trackerVars, histVars,
                   main, message_cache, output_file>>

\* Messages.app rewrites the text and the edit time of a row (an edit, an
\* unsend).
MessageEdited(message) ==
    /\ main \in {"New", "Polling"}
    /\ \E r \in imessage_db : r.id = message.id
    /\ imessage_db' = {IF r.id = message.id THEN message ELSE r : r \in imessage_db}
    /\ imessage_db' # imessage_db
    /\ ret' = [op |-> "message_edited", ok |-> TRUE]
    /\ UNCHANGED <<now, storeVars, engine, delivered, probe, trackerVars, histVars,
                   main, message_cache, output_file>>

\* Messages.app removes a row.
MessageRemoved(id) ==
    /\ main \in {"New", "Polling"}
    /\ \E r \in imessage_db : r.id = id
    /\ imessage_db' = {r \in imessage_db : r.id # id}
    /\ ret' = [op |-> "message_removed", ok |-> TRUE]
    /\ UNCHANGED <<now, storeVars, engine, delivered, probe, trackerVars, histVars,
                   main, message_cache, output_file>>

\* MessageTracker::start up to its loop: create_dir_all, IMessageDatabase::new,
\* load_initial_messages. outcome names the step that fails ("connect" for the
\* first two, "load" for get_recent_messages), "ok" when none does.
MainStart(outcome) ==
    /\ main = "New"
    /\ main' = IF outcome = "ok" THEN "Polling" ELSE "Ended"
    /\ message_cache' =
           IF outcome = "ok"
           THEN \* get_recent_messages(1000): every row, the LIMIT being above
                \* their number; the loop that caches them ignores the order
                LoadInitialMessages(message_cache, RowsAscending(imessage_db), 1)
           ELSE message_cache
    /\ ret' = [op |-> "main_start", ok |-> outcome = "ok"]
    /\ UNCHANGED <<now, storeVars, engine, delivered, probe, trackerVars, histVars,
                   imessage_db, output_file>>

\* MessageTracker::check_for_changes, one turn of the loop of start. query
\* names the query that fails ("newer": get_messages_newer_than, "by_ids":
\* get_messages_by_ids, "none"); failAt and outcome are the handle_deletion
\* that fails. An Err leaves start through "?" and the process ends.
MainCheckForChanges(query, failAt, outcome) ==
    LET \* self.message_cache.keys().max().copied().unwrap_or(0)
        max_cached_id == SetMax({r.id : r \in message_cache})
        new_messages == GetMessagesNewerThan(imessage_db, max_cached_id)
        cached == CacheNewMessages(message_cache, new_messages, 1)
        tracked_ids == {r.id : r \in cached}
        current_messages == GetMessagesByIds(imessage_db, tracked_ids)
        r == CompareTracked(current_messages, 1, cached, output_file, failAt,
                            outcome)
        ok == query = "none" /\ r.ok
    IN  /\ main = "Polling"
        /\ query = "by_ids" => tracked_ids # {}
        /\ message_cache' = IF query = "newer" THEN message_cache
                            ELSE IF query = "by_ids" THEN cached
                            ELSE r.cache
        /\ output_file' = IF query = "none" THEN r.file ELSE output_file
        /\ main' = IF ok THEN "Polling" ELSE "Ended"
        /\ ret' = [op |-> "main_check_for_changes", ok |-> ok,
                   fired |-> IF query = "none" THEN r.fired ELSE <<>>]
        /\ UNCHANGED <<now, storeVars, engine, delivered, probe, trackerVars,
                       histVars, imessage_db>>

\* main, tokio::select!: ctrl_c wins while start sleeps between two checks;
\* the future of start is dropped.
MainCancel ==
    /\ main = "Polling"
    /\ main' = "Ended"
    /\ ret' = [op |-> "ctrl_c", ok |-> TRUE]
    /\ UNCHANGED <<now, storeVars, engine, delivered, probe, trackerVars, histVars,
                   imessage_db, message_cache, output_file>>

\* One run of the binary of main.rs beside a chat.db that Messages.app writes.
NextMain ==
    \/ \E message \in MessageRows : MessageSent(message)
    \/ \E message \in MessageRows : MessageEdited(message)
    \/ \E id \in MessageIds : MessageRemoved(id)
    \/ \E outcome \in {"ok", "connect", "load"} : MainStart(outcome)
    \/ \E query \in {"none", "newer", "by_ids"},
          failAt \in 0..Cardinality(MessageIds),
          outcome \in {"read", "create", "write"} :
           MainCheckForChanges(query, failAt, outcome)
    \/ MainCancel

SpecMain == InitMain /\ [][NextMain]_vars

\* The message ids of the events the output file holds, in the file's order.
EventIds(file) ==
    IF IsSome(file) THEN [k \in 1..Len(Unwrap(file)) |-> Unwrap(file)[k].message_id]
    ELSE <<>>

\* The events of the file, <<>> when there is no file.
EventsOf(file) == IF IsSome(file) THEN Unwrap(file) ELSE <<>>

\* C39 as stated, with "empty or absent" taken as written: an event is
\* written only when the cached text is non-empty and the current text is NULL
\* or the empty text, with a current edit time that is present and later than
\* the cached one. A current text of blanks breaks it.
C39_EventOnlyOnEmptyText ==
    [][ret'.op = "main_check_for_changes" =>
           \A k \in 1..Len(ret'.fired) :
               LET cached_msg == ret'.fired[k].cached
                   current_msg == ret'.fired[k].current
               IN  /\ IsSome(cached_msg.text) /\ Unwrap(cached_msg.text) # <<>>
                   /\ current_msg.text \in {None, Some(<<>>)}
                   /\ IsSome(current_msg.date_edited)
                   /\ OptionGreater(current_msg.date_edited,
                                    cached_msg.date_edited)]_vars

\* C39 (SpecMain), amended: in one run of MessageTracker, check_for_changes
\* writes an event for a cached message only when the cached text is not
\* blank (it has a character that is not whitespace), the current text is NULL
\* or blank (empty after trim), and the current edit time is present and
\* greater than the cached one, an absent cached edit time being less than
\* any. The event describes the cached message and is appended to the file;
\* the cache entry is then the current row; and the file never holds two
\* events of one message id.
C39_OneEventPerBlankedMessage ==
    [][ret'.op = "main_check_for_changes" =>
           /\ \A k \in 1..Len(ret'.fired) :
                  LET cached_msg == ret'.fired[k].cached
                      current_msg == ret'.fired[k].current
                  IN  /\ cached_msg \in message_cache
                      /\ current_msg \in imessage_db
                      /\ current_msg.id = cached_msg.id
                      /\ HasText(cached_msg)
                      /\ ~HasText(current_msg)
                      /\ IsSome(current_msg.date_edited)
                      /\ (IsSome(cached_msg.date_edited) =>
                              Unwrap(current_msg.date_edited)
                                  > Unwrap(cached_msg.date_edited))
                      /\ current_msg \in message_cache'
           /\ ret'.ok =>
                  EventsOf(output_file') =
                      EventsOf(output_file) \o
                          [k \in 1..Len(ret'.fired) |->
                              DeletionEvent(ret'.fired[k].cached)]
           /\ NoRepeat(EventIds(output_file'))]_vars

\* An event of message 1 is in the file, the cache holds the blank row that
\* took the place of the cached one, the row has been edited again since
\* (its edit time is later than the cached one) and the check that just ran
\* wrote nothing more.
C39_Witness ==
    /\ ret.op = "main_check_for_changes" /\ ret.ok
    /\ ret.fired = <<>>
    /\ main = "Polling"
    /\ EventIds(output_file) = <<1>>
    /\ \E cached_msg \in message_cache, current_msg \in imessage_db :
           /\ cached_msg.id = 1 /\ current_msg.id = 1
           /\ ~HasText(cached_msg) /\ ~HasText(current_msg)
           /\ OptionGreater(current_msg.date_edited, cached_msg.date_edited)

====
